---- MODULE Spec2Model ----
(***************************************************************************)
(* Goshenite: cross-thread orchestration of the window thread, the engine  *)
(* thread and the render thread, and the swapchain life cycle of the       *)
(* renderer.                                                               *)
(*                                                                         *)
(* Three state machines share this module, one per pair of source files:   *)
(*   SpecMain    src/src/engine/main_thread.rs  (window thread <-> engine) *)
(*   SpecEngine  src/src/engine/engine.rs       (engine <-> render thread) *)
(*   SpecRender  src/src/renderer/render_manager.rs (render_frame and GPU) *)
(* Each specification leaves the variables of the other two unchanged.     *)
(***************************************************************************)
EXTENDS Integers, Sequences, FiniteSets, TLC

(***************************************************************************)
(* Bounds of the model.                                                    *)
(***************************************************************************)
\* number of window events the platform delivers to MainThread::window_event
MaxEvents == 3

(***************************************************************************)
(* Sequence helpers.                                                       *)
(***************************************************************************)
IsPrefix(s, t) ==
    /\ Len(s) <= Len(t)
    /\ \A i \in 1..Len(s) : s[i] = t[i]

Last(s) == s[Len(s)]

(***************************************************************************)
(* single_value_channel: the slot shared by Updater and Receiver (pending) *)
(* and the value cached in the Receiver (latest).  An empty slot           *)
(* holds no unread value; pending is << >> or << value >>.                 *)
(***************************************************************************)
\* single_value_channel::channel::<T>(): nothing pending, the cached value is None
channel == [pending |-> << >>, latest |-> "None"]

\* Updater::update: replaces any unread value; Err (nothing stored) once the
\* receiver is dropped.  Never waits for the reader.
update_first_write_wins(ch, receiver_alive, value) ==
    IF receiver_alive /\ ch.pending = << >>
    THEN [ch EXCEPT !.pending = << value >>]
    ELSE ch

update(ch, receiver_alive, value) ==
    IF receiver_alive THEN [ch EXCEPT !.pending = << value >>] ELSE ch

\* Receiver::latest: moves an unread value into the cache and returns the cache
latest_stale(ch) == ch

latest_consuming(ch) ==
    IF ch.pending # << >>
    THEN [pending |-> << >>, latest |-> ch.pending[1]]
    ELSE [ch EXCEPT !.latest = "None"]

latest(ch) ==
    IF ch.pending # << >>
    THEN [pending |-> << >>, latest |-> ch.pending[1]]
    ELSE ch

(***************************************************************************)
(* State of SpecMain.                                                      *)
(***************************************************************************)
VARIABLES
    main_pc,            \* window thread: "event_loop", "join", "exited", "returned", "failed"
    exit_requested,     \* event_loop.exit() has been called
    events_delivered,   \* number of window_event callbacks so far
    handle_taken,       \* times the join handle was taken out of MainThread
    join_log,           \* what wait_for_engine_thread_closure logged
    engine_command,     \* the EngineCommand value channel
    window_event_queue, \* the mpsc channel's buffer
    window_event_tx,    \* the Sender is alive
    engine_pc,          \* engine thread: "init", "poll", "drain", "work", "hung", "finished"
    engine_result,      \* how the engine thread ended: "none", "ok", "err", "panic"
    events,             \* get_events: the Vec under construction
    cmd_seen,           \* the command latest_command returned last
    sent,               \* history: every event successfully sent, in send order
    drained,            \* history: concatenation of every Vec get_events returned
    published,          \* history: every value stored by engine_command_tx.update
    unread,             \* publishes since the last latest_command
    unread_at_read,     \* value of unread when latest_command was last called
    pending_at_call,    \* the buffer when get_events was last called
    sent_during_call,   \* a send happened while get_events was running
    last_result,        \* the Vec the last get_events returned
    engine_exits        \* times the engine thread has ended

mainVars == << main_pc, exit_requested, events_delivered, handle_taken, join_log,
               engine_command, window_event_queue, window_event_tx, engine_pc,
               engine_result, events, cmd_seen, sent, drained, published, unread,
               unread_at_read, pending_at_call, sent_during_call, last_result,
               engine_exits >>

(***************************************************************************)
(* State of SpecEngine.                                                    *)
(***************************************************************************)
VARIABLES
    control_flow,       \* winit's ControlFlow: "Poll" or "Exit" (ExitWithCode(0))
    eng_pc,             \* engine: "idle" between events, "stop_wait" in the wait loop
    render_command,     \* RenderThreadCommand value channel
    camera_channel,     \* camera value channel, values are the tick that built them
    gui_primitives,     \* GUI primitives value channel, values are ticks
    gui_textures,       \* GUI texture deltas queue channel, values are ticks
    resize_flag,        \* window-just-resized value channel
    scale_factor,       \* scale factor value channel
    main_thread_frame_number,
    rt_pc,              \* render thread: "poll", "frame", "hung", "finished"
    rt_result,          \* how the render thread ended: "none", "quit", "err"
    rt_cmd_seen,        \* the command the render thread read last
    rt_frames,          \* units of work the render thread has started
    elapsed,            \* milliseconds since render_thread_timeout_begin
    stop_log,           \* what stop_render_thread logged last
    stop_calls,         \* calls of stop_render_thread so far
    ignored_events,     \* control_flow returned at its first match
    publish_failed,     \* a publish to the render thread returned an error
    render_frame_publishes  \* RenderFrame commands process_frame has published

engineVars == << control_flow, eng_pc, render_command, camera_channel,
                 gui_primitives, gui_textures, resize_flag, scale_factor,
                 main_thread_frame_number, rt_pc, rt_result, rt_cmd_seen,
                 rt_frames, elapsed, stop_log, stop_calls, ignored_events,
                 publish_failed, render_frame_publishes >>

(***************************************************************************)
(* State of SpecRender.                                                    *)
(***************************************************************************)
VARIABLES
    render_pc,              \* caller of render_frame: "running", "failed" (it
                            \* got an Err) or "panicked" (render_frame panicked)
    recreate_swapchain,     \* RenderManager.recreate_swapchain
    future_previous_frame,  \* "now", "fence" or "None"
    image_count,            \* images of the live swapchain
    swapchain_gen,          \* generation of RenderManager.swapchain
    views_gen,              \* generation swapchain_image_views were made from
    render_image_gen,       \* generation render_image was sized for
    in_flight,              \* frames submitted to the queue, fence not yet signaled
    swapchain_extent,       \* image extent of the live swapchain
    swapchain_image_views,  \* number of RenderManager.swapchain_image_views
    last_frame,             \* what the last render_frame call did
    last_acquire,           \* what acquire_next_image answered in that call
    last_resize,            \* the window_resize argument of that call
    triggers,               \* recreate triggers raised so far
    flush_failures          \* submissions in a row whose flush failed

renderVars == << render_pc, recreate_swapchain, future_previous_frame, image_count,
                 swapchain_gen, views_gen, render_image_gen, in_flight, last_frame,
                 triggers, swapchain_extent, swapchain_image_views, last_acquire,
                 last_resize, flush_failures >>

(***************************************************************************)
(* State of SpecSwapchain.                                                 *)
(***************************************************************************)
VARIABLES
    device_surface,     \* what the physical device reports for the surface
    window_dimensions,  \* window.inner_size()
    swapchain_props     \* properties of the last swapchain that was asked for

swapVars == << device_surface, window_dimensions, swapchain_props >>

(***************************************************************************)
(* State of SpecCursor: the fields of CursorState.                         *)
(***************************************************************************)
VARIABLES
    position,               \* CursorState.position
    position_previous,      \* CursorState.position_previous
    position_frame_change,  \* CursorState.position_frame_change
    is_pressed,             \* CursorState.is_pressed
    is_pressed_previous,    \* CursorState.is_pressed_previous
    which_dragging,         \* CursorState.which_dragging: "None" or a button
    cursor_icon,            \* the icon last given to window.set_cursor_icon
    drag_button_released    \* the dragging button got a Released event since
                            \* the last process_frame

cursorVars == << position, position_previous, position_frame_change, is_pressed,
                 is_pressed_previous, which_dragging, cursor_icon,
                 drag_button_released >>

vars == << mainVars, engineVars, renderVars, swapVars, cursorVars >>

\* the engine thread owns MainThreadChannels: both receivers live as long as it runs
engine_thread_alive == engine_pc # "finished"

\* the command channel once start_main_thread has published Run, before the
\* engine thread is spawned
initial_command_absent == channel

initial_command == update(channel, TRUE, "Run")

\* start_main_thread up to run_app: the channels exist, Run is published, the
\* engine thread is spawned
start_main_thread ==
    /\ main_pc = "event_loop"
    /\ exit_requested = FALSE
    /\ events_delivered = 0
    /\ handle_taken = 0
    /\ join_log = "none"
    /\ engine_command = initial_command
    /\ window_event_queue = << >>
    /\ window_event_tx = TRUE
    /\ engine_pc = "init"
    /\ engine_result = "none"
    /\ events = << >>
    /\ cmd_seen = "None"
    /\ sent = << >>
    /\ drained = << >>
    /\ published = << "Run" >>
    /\ unread = 1
    /\ unread_at_read = 0
    /\ pending_at_call = << >>
    /\ sent_during_call = FALSE
    /\ last_result = << >>
    /\ engine_exits = 0

(***************************************************************************)
(* Window thread.                                                          *)
(***************************************************************************)
\* mpsc::Sender::send: appends to the tail
send_front(q, ev) == << ev >> \o q

send(q, ev) == Append(q, ev)

\* what Sender::send returns: Err(SendError) once the Receiver is dropped
send_result_always_ok(receiver_alive) == "Ok"

send_result_unchecked(receiver_alive) == "Ok"

send_result(receiver_alive) == IF receiver_alive THEN "Ok" ELSE "Err"

\* MainThread::window_event
\* the test at the head of window_event: a close request for the primary window
is_close_request_any_window(window_id, event) == event = "CloseRequested"

is_close_request(window_id, event) ==
    event = "CloseRequested" /\ window_id = "primary"

window_event(window_id, event) ==
    /\ main_pc = "event_loop"
    /\ events_delivered < MaxEvents
    /\ events_delivered' = events_delivered + 1
    /\ IF is_close_request(window_id, event)
       THEN /\ engine_command' = update(engine_command, engine_thread_alive, "Quit")
            /\ published' = IF engine_thread_alive THEN Append(published, "Quit")
                            ELSE published
            /\ unread' = IF engine_thread_alive THEN unread + 1 ELSE unread
            /\ exit_requested' = TRUE
            /\ UNCHANGED << window_event_queue, sent, sent_during_call >>
       ELSE /\ IF send_result(engine_thread_alive) = "Ok"
               THEN LET ev == [event |-> event, window_id |-> window_id,
                               id |-> events_delivered + 1]
                    IN  /\ window_event_queue' = send(window_event_queue, ev)
                        /\ sent' = Append(sent, ev)
                        /\ sent_during_call' = (sent_during_call \/ engine_pc = "drain")
                        /\ UNCHANGED exit_requested
               ELSE /\ exit_requested' = TRUE
                    /\ UNCHANGED << window_event_queue, sent, sent_during_call >>
            /\ UNCHANGED << engine_command, published, unread >>
    /\ UNCHANGED << main_pc, handle_taken, join_log, window_event_tx, engine_pc,
                    engine_result, events, cmd_seen, drained, unread_at_read,
                    pending_at_call, last_result, engine_exits >>
    /\ UNCHANGED << engineVars, renderVars, swapVars, cursorVars >>

\* MainThread::exiting: takes the join handle and starts the join
exiting_again ==
    /\ main_pc \in {"event_loop", "exited"}
    /\ exit_requested
    /\ handle_taken' = handle_taken + 1
    /\ main_pc' = "join"
    /\ UNCHANGED << exit_requested, events_delivered, join_log, engine_command,
                    window_event_queue, window_event_tx, engine_pc, engine_result,
                    events, cmd_seen, sent, drained, published, unread,
                    unread_at_read, pending_at_call, sent_during_call, last_result,
                    engine_exits >>
    /\ UNCHANGED << engineVars, renderVars, swapVars, cursorVars >>

exiting ==
    /\ main_pc = "event_loop"
    /\ exit_requested
    /\ handle_taken' = handle_taken + 1
    /\ main_pc' = "join"
    /\ UNCHANGED << exit_requested, events_delivered, join_log, engine_command,
                    window_event_queue, window_event_tx, engine_pc, engine_result,
                    events, cmd_seen, sent, drained, published, unread,
                    unread_at_read, pending_at_call, sent_during_call, last_result,
                    engine_exits >>
    /\ UNCHANGED << engineVars, renderVars, swapVars, cursorVars >>

\* wait_for_engine_thread_closure: JoinHandle::join returns only when the thread
\* has ended; the outcome is logged
wait_for_engine_thread_closure ==
    /\ main_pc = "join"
    /\ engine_pc = "finished"
    /\ join_log' = CASE engine_result = "panic" -> "panic on engine thread"
                     [] engine_result = "ok" -> "shut down cleanly"
                     [] OTHER -> "shut down due to error"
    /\ main_pc' = "exited"
    /\ UNCHANGED << exit_requested, events_delivered, handle_taken, engine_command,
                    window_event_queue, window_event_tx, engine_pc, engine_result,
                    events, cmd_seen, sent, drained, published, unread,
                    unread_at_read, pending_at_call, sent_during_call, last_result,
                    engine_exits >>
    /\ UNCHANGED << engineVars, renderVars, swapVars, cursorVars >>

\* run_app returns Ok after exiting(); start_main_thread returns and drops MainThread
run_app_returns ==
    /\ main_pc = "exited"
    /\ main_pc' = "returned"
    /\ window_event_tx' = FALSE
    /\ UNCHANGED << exit_requested, events_delivered, handle_taken, join_log,
                    engine_command, window_event_queue, engine_pc, engine_result,
                    events, cmd_seen, sent, drained, published, unread,
                    unread_at_read, pending_at_call, sent_during_call, last_result,
                    engine_exits >>
    /\ UNCHANGED << engineVars, renderVars, swapVars, cursorVars >>

\* run_app returns Err: the `?` leaves start_main_thread, MainThread is dropped
\* without a join (the handle is ManuallyDrop)
run_app_fails ==
    /\ main_pc = "event_loop"
    /\ main_pc' = "failed"
    /\ window_event_tx' = FALSE
    /\ UNCHANGED << exit_requested, events_delivered, handle_taken, join_log,
                    engine_command, window_event_queue, engine_pc, engine_result,
                    events, cmd_seen, sent, drained, published, unread,
                    unread_at_read, pending_at_call, sent_during_call, last_result,
                    engine_exits >>
    /\ UNCHANGED << engineVars, renderVars, swapVars, cursorVars >>

(***************************************************************************)
(* Engine thread: MainThreadChannels and the loop that uses them.          *)
(***************************************************************************)
\* mpsc::Receiver::try_recv: the oldest buffered event, Empty when nothing is
\* buffered and the Sender lives, Disconnected when nothing is buffered and the
\* Sender is gone
try_recv_newest(q, tx_alive) ==
    IF Len(q) > 0
    THEN [res |-> "Ok", event |-> q[Len(q)], rest |-> SubSeq(q, 1, Len(q) - 1)]
    ELSE [res |-> IF tx_alive THEN "Empty" ELSE "Disconnected",
          event |-> "none", rest |-> q]

try_recv(q, tx_alive) ==
    IF Len(q) > 0
    THEN [res |-> "Ok", event |-> Head(q), rest |-> Tail(q)]
    ELSE [res |-> IF tx_alive THEN "Empty" ELSE "Disconnected",
          event |-> "none", rest |-> q]

\* MainThreadChannels::latest_command
latest_command_cached(ch) == ch

latest_command(ch) == latest(ch)

\* EngineController::new inside the spawned closure: Ok, or Err and the closure
\* returns
EngineController_new ==
    /\ engine_pc = "init"
    /\ \/ /\ engine_pc' = "poll"
          /\ UNCHANGED << engine_result, engine_exits >>
       \/ /\ engine_pc' = "finished"
          /\ engine_result' = "err"
          /\ engine_exits' = engine_exits + 1
    /\ UNCHANGED << main_pc, exit_requested, events_delivered, handle_taken,
                    join_log, engine_command, window_event_queue, window_event_tx,
                    events, cmd_seen, sent, drained, published, unread,
                    unread_at_read, pending_at_call, sent_during_call, last_result >>
    /\ UNCHANGED << engineVars, renderVars, swapVars, cursorVars >>

\* head of the engine loop: poll the command channel; Quit ends the loop and
\* the thread, anything else starts an iteration with a call of get_events
engine_poll ==
    /\ engine_pc = "poll"
    /\ engine_command' = latest_command(engine_command)
    /\ cmd_seen' = engine_command'.latest
    /\ unread_at_read' = unread
    /\ unread' = 0
    /\ IF cmd_seen' = "Quit"
       THEN /\ engine_pc' = "finished"
            /\ engine_result' = "ok"
            /\ engine_exits' = engine_exits + 1
            /\ UNCHANGED << events, pending_at_call, sent_during_call >>
       ELSE /\ engine_pc' = "drain"
            /\ events' = << >>
            /\ pending_at_call' = window_event_queue
            /\ sent_during_call' = FALSE
            /\ UNCHANGED << engine_result, engine_exits >>
    /\ UNCHANGED << main_pc, exit_requested, events_delivered, handle_taken,
                    join_log, window_event_queue, window_event_tx, sent, drained,
                    published, last_result >>
    /\ UNCHANGED << engineVars, renderVars, swapVars, cursorVars >>

\* MainThreadChannels::get_events: one iteration of its loop
get_events ==
    /\ engine_pc = "drain"
    /\ LET r == try_recv(window_event_queue, window_event_tx)
       IN  CASE r.res = "Ok" ->
                  /\ events' = Append(events, r.event)
                  /\ window_event_queue' = r.rest
                  /\ UNCHANGED << engine_pc, engine_result, engine_exits, drained,
                                  last_result >>
             [] r.res = "Empty" ->
                  /\ last_result' = events
                  /\ drained' = drained \o events
                  /\ events' = << >>
                  /\ engine_pc' = "work"
                  /\ UNCHANGED << window_event_queue, engine_result, engine_exits >>
             [] OTHER ->
                  \* bail!("window thread disconnected"): events is dropped
                  /\ events' = << >>
                  /\ engine_pc' = "finished"
                  /\ engine_result' = "err"
                  /\ engine_exits' = engine_exits + 1
                  /\ UNCHANGED << window_event_queue, drained, last_result >>
    /\ UNCHANGED << main_pc, exit_requested, events_delivered, handle_taken,
                    join_log, engine_command, window_event_tx, cmd_seen, sent,
                    published, unread, unread_at_read, pending_at_call,
                    sent_during_call >>
    /\ UNCHANGED << engineVars, renderVars, swapVars, cursorVars >>

\* one unit of work of the engine loop: it completes, blocks for ever, or ends
\* the thread with an error or a panic
engine_work ==
    /\ engine_pc = "work"
    /\ \/ /\ engine_pc' = "poll"
          /\ UNCHANGED << engine_result, engine_exits >>
       \/ /\ engine_pc' = "hung"
          /\ UNCHANGED << engine_result, engine_exits >>
       \/ /\ \E r \in {"err", "panic"} : engine_result' = r
          /\ engine_pc' = "finished"
          /\ engine_exits' = engine_exits + 1
    /\ UNCHANGED << main_pc, exit_requested, events_delivered, handle_taken,
                    join_log, engine_command, window_event_queue, window_event_tx,
                    events, cmd_seen, sent, drained, published, unread,
                    unread_at_read, pending_at_call, sent_during_call, last_result >>
    /\ UNCHANGED << engineVars, renderVars, swapVars, cursorVars >>

(***************************************************************************)
(* Engine (src/src/engine/engine.rs) and its render thread.                *)
(***************************************************************************)
\* engine ticks the model follows (Engine.main_thread_frame_number)
MaxTicks == 2

\* milliseconds the clock advances between two looks at Instant::elapsed
TickMillis == 1000

RENDER_THREAD_WAIT_TIMEOUT_SECONDS == 2

\* (RENDER_THREAD_WAIT_TIMEOUT_SECONDS * 1_000.) as u128
timeout_millis == RENDER_THREAD_WAIT_TIMEOUT_SECONDS * 1000

\* the render thread owns the receiving ends of RenderThreadChannels
render_thread_alive == rt_pc # "finished"

\* Engine::new from start_render_thread on: the render thread runs, nothing has
\* been published but the initial command
Engine_new ==
    /\ control_flow = "Poll"
    /\ eng_pc = "idle"
    /\ render_command = update(channel, TRUE, "RenderFrame")
    /\ camera_channel = [pending |-> << >>, latest |-> 0]
    /\ gui_primitives = [pending |-> << >>, latest |-> 0]
    /\ gui_textures = << >>
    /\ resize_flag = [pending |-> << >>, latest |-> FALSE]
    /\ scale_factor = [pending |-> << >>, latest |-> "initial"]
    /\ main_thread_frame_number = 0
    /\ rt_pc = "poll"
    /\ rt_result = "none"
    /\ rt_cmd_seen = "None"
    /\ rt_frames = 0
    /\ elapsed = 0
    /\ stop_log = "none"
    /\ stop_calls = 0
    /\ ignored_events = FALSE
    /\ publish_failed = FALSE
    /\ render_frame_publishes = 0

\* Engine::stop_render_thread up to its wait loop: publish Quit (the result is
\* dropped) and take the time; publish_failed is left to the caller, who may
\* have seen a publish fail already
stop_render_thread ==
    /\ render_command' = update(render_command, render_thread_alive, "Quit")
    /\ elapsed' = 0
    /\ stop_calls' = stop_calls + 1
    /\ eng_pc' = "stop_wait"

\* Engine::process_input: Ok or Err(RenderThreadClosedPrematurely); only the
\* events that publish to the render thread change state that is followed here
process_input_ok(event) ==
    CASE event = "Resized" -> render_thread_alive
      [] event = "ScaleFactorChanged" -> render_thread_alive
      [] OTHER -> TRUE

process_input(event) ==
    /\ resize_flag' =
          IF event \in {"Resized", "ScaleFactorChanged"}
          THEN update(resize_flag, render_thread_alive, TRUE)
          ELSE resize_flag
    /\ scale_factor' =
          IF event = "ScaleFactorChanged"
          THEN update(scale_factor, render_thread_alive, "changed")
          ELSE scale_factor
    /\ publish_failed' =
          (publish_failed
           \/ (event \in {"Resized", "ScaleFactorChanged"} /\ ~render_thread_alive))

\* Engine::process_frame publishes in this order; each publish is a point
\* where the render thread's receivers are found alive or dropped
PublishOrder == << "camera", "gui_textures", "gui_primitives", "render_command" >>

\* alive_for is the number of publish points of a call that find the receivers
\* alive: all of them, none when the render thread has ended before the call,
\* or some when the render thread ends while the call runs
ReceiversAliveFor ==
    IF ~render_thread_alive THEN {0}
    ELSE IF rt_pc = "frame" THEN 1..Len(PublishOrder)
    ELSE {Len(PublishOrder)}

\* Engine::process_frame: camera, then texture deltas and GUI primitives when
\* not empty, then RenderFrame; the first failed publish returns the error
process_frame_ok_ignores_failure(alive_for) == TRUE

process_frame_ok(alive_for) == alive_for >= Len(PublishOrder)

process_frame_counts_failed_tick(textures_empty, primitives_empty, alive_for) ==
    LET tick == main_thread_frame_number + 1
    IN  /\ camera_channel' = update(camera_channel, alive_for >= 1, tick)
        /\ gui_textures' = IF alive_for >= 2 /\ ~textures_empty
                           THEN Append(gui_textures, tick) ELSE gui_textures
        /\ gui_primitives' = IF ~primitives_empty
                             THEN update(gui_primitives, alive_for >= 3, tick)
                             ELSE gui_primitives
        /\ IF alive_for >= 4
           THEN /\ render_command' = update(render_command, TRUE, "RenderFrame")
                /\ render_frame_publishes' = render_frame_publishes + 1
           ELSE UNCHANGED << render_command, render_frame_publishes >>
        /\ main_thread_frame_number' = tick
        /\ publish_failed' = (publish_failed \/ alive_for < Len(PublishOrder))

process_frame(textures_empty, primitives_empty, alive_for) ==
    LET tick == main_thread_frame_number + 1
    IN  /\ camera_channel' = update(camera_channel, alive_for >= 1, tick)
        /\ gui_textures' = IF alive_for >= 2 /\ ~textures_empty
                           THEN Append(gui_textures, tick) ELSE gui_textures
        /\ gui_primitives' = IF ~primitives_empty
                             THEN update(gui_primitives, alive_for >= 3, tick)
                             ELSE gui_primitives
        /\ IF alive_for >= 4
           THEN /\ render_command' = update(render_command, TRUE, "RenderFrame")
                /\ render_frame_publishes' = render_frame_publishes + 1
                /\ main_thread_frame_number' = tick
           ELSE UNCHANGED << render_command, render_frame_publishes,
                             main_thread_frame_number >>
        /\ publish_failed' = (publish_failed \/ alive_for < Len(PublishOrder))

\* Engine::control_flow, the match on the event
control_flow_match_event(event, textures_empty, primitives_empty, alive_for) ==
    /\ eng_pc = "idle"
    /\ CASE event = "CloseRequested" ->
              /\ control_flow' = "Exit"
              /\ stop_render_thread
              /\ UNCHANGED << camera_channel, gui_primitives, gui_textures,
                              resize_flag, scale_factor, main_thread_frame_number,
                              stop_log, ignored_events, render_frame_publishes,
                              rt_pc, rt_result >>
              /\ publish_failed' = (publish_failed \/ ~render_thread_alive)
         [] event \in {"Resized", "ScaleFactorChanged", "CursorMoved"} ->
              /\ process_input(event)
              /\ IF process_input_ok(event)
                 THEN UNCHANGED << control_flow, render_command, elapsed,
                                   stop_calls, eng_pc >>
                 ELSE /\ control_flow' = "Exit"
                      /\ stop_render_thread
              /\ UNCHANGED << camera_channel, gui_primitives, gui_textures,
                              main_thread_frame_number, stop_log, ignored_events,
                              render_frame_publishes, rt_pc, rt_result >>
         [] event = "MainEventsCleared" ->
              /\ main_thread_frame_number < MaxTicks
              /\ alive_for \in ReceiversAliveFor
              /\ process_frame(textures_empty, primitives_empty, alive_for)
              \* the render thread ended while the call was running
              /\ IF render_thread_alive /\ alive_for < Len(PublishOrder)
                 THEN rt_pc' = "finished" /\ rt_result' = "err"
                 ELSE UNCHANGED << rt_pc, rt_result >>
              /\ IF process_frame_ok(alive_for)
                 THEN UNCHANGED << control_flow, elapsed, stop_calls, eng_pc >>
                 ELSE \* stop_render_thread; its publish of Quit fails as well
                      /\ control_flow' = "Exit"
                      /\ elapsed' = 0
                      /\ stop_calls' = stop_calls + 1
                      /\ eng_pc' = "stop_wait"
              /\ UNCHANGED << resize_flag, scale_factor, stop_log, ignored_events >>
         [] OTHER ->
              UNCHANGED << control_flow, eng_pc, render_command, camera_channel,
                           gui_primitives, gui_textures, resize_flag, scale_factor,
                           main_thread_frame_number, elapsed, stop_log, stop_calls,
                           ignored_events, publish_failed,
                           render_frame_publishes, rt_pc, rt_result >>
    /\ UNCHANGED << rt_cmd_seen, rt_frames >>
    /\ UNCHANGED << mainVars, renderVars, swapVars, cursorVars >>

\* Engine::control_flow: a quitting engine does no more processing
Engine_control_flow_no_guard(event, textures_empty, primitives_empty, alive_for) ==
    control_flow_match_event(event, textures_empty, primitives_empty, alive_for)

Engine_control_flow(event, textures_empty, primitives_empty, alive_for) ==
    IF control_flow = "Exit"
    THEN /\ eng_pc = "idle"
         /\ ignored_events' = TRUE
         /\ UNCHANGED << publish_failed, render_frame_publishes >>
         /\ UNCHANGED << control_flow, eng_pc, render_command, camera_channel,
                         gui_primitives, gui_textures, resize_flag, scale_factor,
                         main_thread_frame_number, rt_pc, rt_result, rt_cmd_seen,
                         rt_frames, elapsed, stop_log, stop_calls >>
         /\ UNCHANGED << mainVars, renderVars, swapVars, cursorVars >>
    ELSE control_flow_match_event(event, textures_empty, primitives_empty, alive_for)

\* Engine::stop_render_thread, one iteration of its wait loop
stop_wait_loop_no_timeout ==
    /\ eng_pc = "stop_wait"
    /\ IF rt_pc = "finished"
       THEN /\ stop_log' = "render thread quit."
            /\ eng_pc' = "idle"
       ELSE UNCHANGED << stop_log, eng_pc >>
    /\ UNCHANGED << control_flow, render_command, camera_channel, gui_primitives,
                    gui_textures, resize_flag, scale_factor,
                    main_thread_frame_number, rt_pc, rt_result, rt_cmd_seen,
                    rt_frames, elapsed, stop_calls, ignored_events, publish_failed,
                    render_frame_publishes >>
    /\ UNCHANGED << mainVars, renderVars, swapVars, cursorVars >>

stop_wait_loop ==
    /\ eng_pc = "stop_wait"
    /\ IF rt_pc = "finished"
       THEN /\ stop_log' = "render thread quit."
            /\ eng_pc' = "idle"
       ELSE IF elapsed > timeout_millis
       THEN /\ stop_log' = "render thread hanging longer than timeout"
            /\ eng_pc' = "idle"
       ELSE UNCHANGED << stop_log, eng_pc >>
    /\ UNCHANGED << control_flow, render_command, camera_channel, gui_primitives,
                    gui_textures, resize_flag, scale_factor,
                    main_thread_frame_number, rt_pc, rt_result, rt_cmd_seen,
                    rt_frames, elapsed, stop_calls, ignored_events, publish_failed,
                    render_frame_publishes >>
    /\ UNCHANGED << mainVars, renderVars, swapVars, cursorVars >>

\* time passes while the engine spins in the wait loop (Instant::elapsed)
clock_tick ==
    /\ eng_pc = "stop_wait"
    /\ elapsed <= timeout_millis
    /\ elapsed' = elapsed + TickMillis
    /\ UNCHANGED << control_flow, eng_pc, render_command, camera_channel,
                    gui_primitives, gui_textures, resize_flag, scale_factor,
                    main_thread_frame_number, rt_pc, rt_result, rt_cmd_seen,
                    rt_frames, stop_log, stop_calls, ignored_events, publish_failed,
                    render_frame_publishes >>
    /\ UNCHANGED << mainVars, renderVars, swapVars, cursorVars >>

\* render thread, head of its loop: poll the command channel; Quit breaks the
\* loop, tears down and returns, anything else starts a unit of work
render_thread_poll ==
    /\ rt_pc = "poll"
    /\ render_command' = latest(render_command)
    /\ rt_cmd_seen' = render_command'.latest
    /\ IF rt_cmd_seen' = "Quit"
       THEN /\ rt_pc' = "finished"
            /\ rt_result' = "quit"
            /\ UNCHANGED rt_frames
       ELSE /\ rt_pc' = "frame"
            /\ rt_frames' = IF rt_frames < MaxTicks + 1 THEN rt_frames + 1 ELSE rt_frames
            /\ UNCHANGED rt_result
    /\ UNCHANGED << control_flow, eng_pc, camera_channel, gui_primitives,
                    gui_textures, resize_flag, scale_factor,
                    main_thread_frame_number, elapsed, stop_log, stop_calls,
                    ignored_events, publish_failed,
                    render_frame_publishes >>
    /\ UNCHANGED << mainVars, renderVars, swapVars, cursorVars >>

\* render thread, one unit of work: take the frame's state from the channels and
\* render; the frame completes, fails (the thread returns) or never returns
render_thread_frame ==
    /\ rt_pc = "frame"
    /\ camera_channel' = latest(camera_channel)
    /\ gui_primitives' = latest(gui_primitives)
    /\ resize_flag' = latest(resize_flag)
    /\ scale_factor' = latest(scale_factor)
    /\ gui_textures' = << >>
    /\ \/ /\ rt_pc' = "poll"
          /\ UNCHANGED rt_result
       \/ /\ rt_pc' = "finished"
          /\ rt_result' = "err"
       \/ /\ rt_pc' = "hung"
          /\ UNCHANGED rt_result
    /\ UNCHANGED << control_flow, eng_pc, render_command, main_thread_frame_number,
                    rt_cmd_seen, rt_frames, elapsed, stop_log, stop_calls,
                    ignored_events, publish_failed,
                    render_frame_publishes >>
    /\ UNCHANGED << mainVars, renderVars, swapVars, cursorVars >>

(***************************************************************************)
(* The surface as the driver reports it.                                   *)
(***************************************************************************)
\* largest value of a u32 the model follows; it stands for u32::MAX
u32_MAX == 7

Extent2D(w, h) == [width |-> w, height |-> h]

\* current_extent of a surface whose size the swapchain decides
undefined_extent == Extent2D(u32_MAX, u32_MAX)

\* a surface whose size is the window's: the three extents agree
fixed_surface(e) ==
    [current_extent |-> e, min_image_extent |-> e, max_image_extent |-> e]

\* a surface that takes the size of the swapchain, within a range
free_surface ==
    [current_extent |-> undefined_extent,
     min_image_extent |-> Extent2D(1, 1),
     max_image_extent |-> Extent2D(2, 2)]

WindowSizes == {Extent2D(0, 0), Extent2D(1, 2), Extent2D(2, 1)}

SurfaceExtents ==
    {fixed_surface(Extent2D(1, 2)), fixed_surface(Extent2D(2, 1)), free_surface}

\* what window().inner_size() and the surface answer at one moment, and the
\* number of images the driver gives a swapchain made at that moment
SurfaceSnapshots ==
    [inner_size : WindowSizes, caps : SurfaceExtents, images : {2, 3}]

no_surface == [inner_size |-> Extent2D(0, 0), caps |-> free_surface, images |-> 0]

\* Swapchain::new / Swapchain::recreate refuse an image_extent outside the
\* surface's range (ImageExtentNotSupported)
image_extent_supported(caps, e) ==
    /\ caps.min_image_extent.width <= e.width
    /\ e.width <= caps.max_image_extent.width
    /\ caps.min_image_extent.height <= e.height
    /\ e.height <= caps.max_image_extent.height

(***************************************************************************)
(* Renderer (src/src/renderer/render_manager.rs) and the GPU queue.        *)
(***************************************************************************)
\* swapchain recreations the model follows
MaxGen == 2

\* longest run of failed flushes that is followed
MaxFlushFailures == 3

\* Double-buffering
MAX_FRAMES_IN_FLIGHT == 2

\* a call of render_frame that has not returned anything yet
no_frame ==
    [ret |-> "none", path |-> "none", recorded |-> << >>, flush |-> "none", recreate |-> "none", surface |-> no_surface]

\* RenderManager::new: the swapchain has the window's size and the images the
\* driver gives, every image has its view, no frame was submitted, the
\* recreate trigger is unset
RenderManager_new ==
    /\ render_pc = "running"
    /\ recreate_swapchain = FALSE
    /\ future_previous_frame = "now"
    /\ image_count \in {2, 3}
    /\ swapchain_extent \in {Extent2D(1, 2), Extent2D(2, 1)}
    /\ swapchain_image_views = image_count
    /\ swapchain_gen = 0
    /\ views_gen = 0
    /\ render_image_gen = 0
    /\ in_flight = << >>
    /\ last_frame = no_frame
    /\ last_acquire = "none"
    /\ last_resize = FALSE
    /\ triggers = 0
    /\ flush_failures = 0

\* the render thread's loop calls render_frame until a call returns an error
render_loop_running == render_pc = "running"

\* images of the live swapchain that no unfinished frame holds; every such
\* frame holds one image of its own, so only their number is followed
free_images ==
    image_count - Cardinality({i \in 1..Len(in_flight) :
                                  in_flight[i].swapchain_gen = swapchain_gen})

\* what self.swapchain.recreate answers for the window's size of the moment
swapchain_recreate(result, surface) ==
    IF image_extent_supported(surface.caps, surface.inner_size)
    THEN result ELSE "ErrRecreate"

\* RenderManager::recreate_swapchain: the new swapchain and its image views
\* replace the old ones, then the render image and the passes follow, then the
\* trigger is unset; an error returns at once
RenderManager_recreate_swapchain_keeps_views(result, surface) ==
    LET res == swapchain_recreate(result, surface)
    IN  /\ swapchain_gen < MaxGen
        /\ IF res = "ErrRecreate"
           THEN UNCHANGED << swapchain_gen, views_gen, render_image_gen,
                             swapchain_extent, image_count, swapchain_image_views >>
           ELSE /\ swapchain_gen' = swapchain_gen + 1
                /\ swapchain_extent' = surface.inner_size
                /\ image_count' = surface.images
                /\ UNCHANGED << views_gen, swapchain_image_views >>
                /\ render_image_gen' = IF res = "Ok" THEN swapchain_gen + 1
                                       ELSE render_image_gen
        /\ recreate_swapchain' = (res # "Ok")
        /\ render_pc' = IF res = "Ok" THEN "running" ELSE "failed"
        /\ last_frame' = [no_frame EXCEPT !.ret = IF res = "Ok" THEN "Ok" ELSE "Err",
                                          !.path = "recreate",
                                          !.recreate = res,
                                          !.surface = surface]

RenderManager_recreate_swapchain_keeps_extent(result, surface) ==
    LET res == swapchain_recreate(result, surface)
    IN  /\ swapchain_gen < MaxGen
        /\ IF res = "ErrRecreate"
           THEN UNCHANGED << swapchain_gen, views_gen, render_image_gen,
                             swapchain_extent, image_count, swapchain_image_views >>
           ELSE /\ swapchain_gen' = swapchain_gen + 1
                /\ UNCHANGED swapchain_extent
                /\ image_count' = surface.images
                /\ views_gen' = swapchain_gen + 1
                /\ swapchain_image_views' = surface.images
                /\ render_image_gen' = IF res = "Ok" THEN swapchain_gen + 1
                                       ELSE render_image_gen
        /\ recreate_swapchain' = (res # "Ok")
        /\ render_pc' = IF res = "Ok" THEN "running" ELSE "failed"
        /\ last_frame' = [no_frame EXCEPT !.ret = IF res = "Ok" THEN "Ok" ELSE "Err",
                                          !.path = "recreate",
                                          !.recreate = res,
                                          !.surface = surface]

RenderManager_recreate_swapchain_swallows_error(result, surface) ==
    LET res == swapchain_recreate(result, surface)
    IN  /\ swapchain_gen < MaxGen
        /\ IF res = "ErrRecreate"
           THEN UNCHANGED << swapchain_gen, views_gen, render_image_gen,
                             swapchain_extent, image_count, swapchain_image_views >>
           ELSE /\ swapchain_gen' = swapchain_gen + 1
                /\ swapchain_extent' = surface.inner_size
                /\ image_count' = surface.images
                /\ views_gen' = swapchain_gen + 1
                /\ swapchain_image_views' = surface.images
                /\ render_image_gen' = IF res = "Ok" THEN swapchain_gen + 1
                                       ELSE render_image_gen
        /\ recreate_swapchain' = (res # "Ok")
        /\ UNCHANGED render_pc
        /\ last_frame' = [no_frame EXCEPT !.ret = "Ok",
                                          !.path = "recreate",
                                          !.recreate = res,
                                          !.surface = surface]

RenderManager_recreate_swapchain_unsets_first(result, surface) ==
    LET res == swapchain_recreate(result, surface)
    IN  /\ swapchain_gen < MaxGen
        /\ IF res = "ErrRecreate"
           THEN UNCHANGED << swapchain_gen, views_gen, render_image_gen,
                             swapchain_extent, image_count, swapchain_image_views >>
           ELSE /\ swapchain_gen' = swapchain_gen + 1
                /\ swapchain_extent' = surface.inner_size
                /\ image_count' = surface.images
                /\ views_gen' = swapchain_gen + 1
                /\ swapchain_image_views' = surface.images
                /\ render_image_gen' = IF res = "Ok" THEN swapchain_gen + 1
                                       ELSE render_image_gen
        /\ recreate_swapchain' = FALSE
        /\ render_pc' = IF res = "Ok" THEN "running" ELSE "failed"
        /\ last_frame' = [no_frame EXCEPT !.ret = IF res = "Ok" THEN "Ok" ELSE "Err",
                                          !.path = "recreate",
                                          !.recreate = res,
                                          !.surface = surface]

RenderManager_recreate_swapchain(result, surface) ==
    LET res == swapchain_recreate(result, surface)
    IN  /\ swapchain_gen < MaxGen
        /\ IF res = "ErrRecreate"
           THEN UNCHANGED << swapchain_gen, views_gen, render_image_gen,
                             swapchain_extent, image_count, swapchain_image_views >>
           ELSE /\ swapchain_gen' = swapchain_gen + 1
                /\ swapchain_extent' = surface.inner_size
                /\ image_count' = surface.images
                /\ views_gen' = swapchain_gen + 1
                /\ swapchain_image_views' = surface.images
                /\ render_image_gen' = IF res = "Ok" THEN swapchain_gen + 1
                                       ELSE render_image_gen
        /\ recreate_swapchain' = (res # "Ok")
        /\ render_pc' = IF res = "Ok" THEN "running" ELSE "failed"
        /\ last_frame' = [no_frame EXCEPT !.ret = IF res = "Ok" THEN "Ok" ELSE "Err",
                                          !.path = "recreate",
                                          !.recreate = res,
                                          !.surface = surface]

\* render_frame when acquire_next_image answers OutOfDate: the trigger is set
\* and the call returns what recreate_swapchain returns
render_frame_acquire_out_of_date_draws(recreate, surface) ==
    /\ RenderManager_recreate_swapchain(recreate, surface)
    /\ triggers' = triggers + 1
    /\ in_flight' = Append(in_flight, [views_gen |-> views_gen,
                                       swapchain_gen |-> swapchain_gen])
    /\ UNCHANGED future_previous_frame

render_frame_acquire_out_of_date(recreate, surface) ==
    /\ RenderManager_recreate_swapchain(recreate, surface)
    /\ triggers' = triggers + 1
    /\ UNCHANGED << future_previous_frame, in_flight >>

\* render_frame once an image is acquired: a suboptimal acquire sets the
\* trigger, the command buffer is recorded, the submission is chained onto the
\* previous frame's future and flushed; OutOfDate at the flush sets the
\* trigger, any flush error is logged, and the call returns Ok
render_frame_submit_forgets_trigger(acquire, record, flush) ==
    \* acquire_next_image blocks while no image is available
    /\ free_images > 0
    /\ LET frame == [views_gen |-> views_gen, swapchain_gen |-> swapchain_gen]
       IN IF ~record
          THEN /\ UNCHANGED recreate_swapchain
               /\ render_pc' = "failed"
               /\ last_frame' = [no_frame EXCEPT !.ret = "Err", !.path = "record"]
               /\ triggers' = triggers + (IF acquire = "Suboptimal" THEN 1 ELSE 0)
               /\ UNCHANGED << future_previous_frame, in_flight >>
          ELSE /\ UNCHANGED recreate_swapchain
               \* then_execute(..).unwrap() panics with the future taken out
               /\ future_previous_frame' = CASE flush = "Ok" -> "fence"
                                              [] flush = "ExecutePanic" -> "None"
                                              [] OTHER -> "now"
               /\ in_flight' = IF flush = "Ok" THEN Append(in_flight, frame)
                               ELSE in_flight
               /\ last_frame' = [no_frame EXCEPT
                                    !.ret = IF flush = "ExecutePanic" THEN "panic"
                                           ELSE "Ok",
                                    !.path = CASE flush = "Ok" -> "submitted"
                                               [] flush = "ExecutePanic" -> "execute"
                                               [] OTHER -> "flush_failed",
                                    !.flush = flush,
                                    !.recorded = << frame >>]
               /\ triggers' = triggers
                                + (IF acquire = "Suboptimal" THEN 1 ELSE 0)
                                + (IF flush = "OutOfDate" THEN 1 ELSE 0)
               /\ render_pc' = IF flush = "ExecutePanic" THEN "panicked"
                               ELSE render_pc
    /\ UNCHANGED << swapchain_gen, views_gen, render_image_gen, swapchain_extent,
                    image_count, swapchain_image_views >>

render_frame_submit_drops_future(acquire, record, flush) ==
    \* acquire_next_image blocks while no image is available
    /\ free_images > 0
    /\ LET suboptimal == (acquire = "Suboptimal")
           frame == [views_gen |-> views_gen, swapchain_gen |-> swapchain_gen]
       IN IF ~record
          THEN /\ recreate_swapchain' = suboptimal
               /\ render_pc' = "failed"
               /\ last_frame' = [no_frame EXCEPT !.ret = "Err", !.path = "record"]
               /\ triggers' = triggers + (IF suboptimal THEN 1 ELSE 0)
               /\ UNCHANGED << future_previous_frame, in_flight >>
          ELSE /\ recreate_swapchain' = (suboptimal \/ flush = "OutOfDate")
               \* then_execute(..).unwrap() panics with the future taken out
               /\ future_previous_frame' = CASE flush = "Ok" -> "fence"
                                              [] flush = "ExecutePanic" -> "None"
                                              [] OTHER -> "None"
               /\ in_flight' = IF flush = "Ok" THEN Append(in_flight, frame)
                               ELSE in_flight
               /\ last_frame' = [no_frame EXCEPT
                                    !.ret = IF flush = "ExecutePanic" THEN "panic"
                                           ELSE "Ok",
                                    !.path = CASE flush = "Ok" -> "submitted"
                                               [] flush = "ExecutePanic" -> "execute"
                                               [] OTHER -> "flush_failed",
                                    !.flush = flush,
                                    !.recorded = << frame >>]
               /\ triggers' = triggers
                                + (IF suboptimal THEN 1 ELSE 0)
                                + (IF flush = "OutOfDate" THEN 1 ELSE 0)
               /\ render_pc' = IF flush = "ExecutePanic" THEN "panicked"
                               ELSE render_pc
    /\ UNCHANGED << swapchain_gen, views_gen, render_image_gen, swapchain_extent,
                    image_count, swapchain_image_views >>

render_frame_submit(acquire, record, flush) ==
    \* acquire_next_image blocks while no image is available
    /\ free_images > 0
    /\ LET suboptimal == (acquire = "Suboptimal")
           frame == [views_gen |-> views_gen, swapchain_gen |-> swapchain_gen]
       IN IF ~record
          THEN /\ recreate_swapchain' = suboptimal
               /\ render_pc' = "failed"
               /\ last_frame' = [no_frame EXCEPT !.ret = "Err", !.path = "record"]
               /\ triggers' = triggers + (IF suboptimal THEN 1 ELSE 0)
               /\ UNCHANGED << future_previous_frame, in_flight >>
          ELSE /\ recreate_swapchain' = (suboptimal \/ flush = "OutOfDate")
               \* then_execute(..).unwrap() panics with the future taken out
               /\ future_previous_frame' = CASE flush = "Ok" -> "fence"
                                              [] flush = "ExecutePanic" -> "None"
                                              [] OTHER -> "now"
               /\ in_flight' = IF flush = "Ok" THEN Append(in_flight, frame)
                               ELSE in_flight
               /\ last_frame' = [no_frame EXCEPT
                                    !.ret = IF flush = "ExecutePanic" THEN "panic"
                                           ELSE "Ok",
                                    !.path = CASE flush = "Ok" -> "submitted"
                                               [] flush = "ExecutePanic" -> "execute"
                                               [] OTHER -> "flush_failed",
                                    !.flush = flush,
                                    !.recorded = << frame >>]
               /\ triggers' = triggers
                                + (IF suboptimal THEN 1 ELSE 0)
                                + (IF flush = "OutOfDate" THEN 1 ELSE 0)
               /\ render_pc' = IF flush = "ExecutePanic" THEN "panicked"
                               ELSE render_pc
    /\ UNCHANGED << swapchain_gen, views_gen, render_image_gen, swapchain_extent,
                    image_count, swapchain_image_views >>

\* RenderManager::render_frame.  window_resize is its argument; acquire, record,
\* flush and recreate are what acquire_next_image, the recording of the command
\* buffer, the submit chain (then_execute, whose error is unwrapped, up to
\* then_signal_fence_and_flush) and recreate_swapchain answer, surface is what
\* the window and the surface report when the swapchain is recreated.
render_frame(window_resize, acquire, record, flush, recreate, surface) ==
    /\ render_loop_running
    \* cleanup_finished() only polls the previous frame's fence: nothing waits
    /\ IF recreate_swapchain \/ window_resize
       THEN /\ RenderManager_recreate_swapchain(recreate, surface)
            /\ triggers' = IF window_resize THEN triggers + 1 ELSE triggers
            /\ last_acquire' = "none"
            /\ last_resize' = window_resize
            /\ UNCHANGED << future_previous_frame, in_flight, flush_failures >>
       ELSE /\ last_acquire' = acquire
            /\ last_resize' = FALSE
            \* the match on the flushed future keeps no count: the model counts
            \* the submissions in a row that end in its Err(e) arm
            /\ flush_failures' =
                  IF acquire \in {"OutOfDate", "Err"} \/ ~record
                  THEN flush_failures
                  ELSE CASE flush = "Err" -> flush_failures + 1
                         [] flush = "ExecutePanic" -> flush_failures
                         [] OTHER -> 0
            /\ CASE acquire = "OutOfDate" ->
                      render_frame_acquire_out_of_date(recreate, surface)
                 [] acquire = "Err" ->
                      /\ render_pc' = "failed"
                      /\ last_frame' = [no_frame EXCEPT !.ret = "Err",
                                                        !.path = "acquire"]
                      /\ UNCHANGED << recreate_swapchain, future_previous_frame,
                                      swapchain_gen, views_gen, render_image_gen,
                                      in_flight, triggers, swapchain_extent,
                                      image_count, swapchain_image_views >>
                 [] OTHER -> render_frame_submit(acquire, record, flush)
    /\ UNCHANGED << mainVars, engineVars, swapVars, cursorVars >>

\* the queue finishes its oldest frame: the frame's fence is signaled and its
\* image goes back to the presentation engine
gpu_complete ==
    /\ Len(in_flight) > 0
    /\ in_flight' = Tail(in_flight)
    /\ UNCHANGED << render_pc, recreate_swapchain, future_previous_frame,
                    image_count, swapchain_gen, views_gen, render_image_gen,
                    last_frame, triggers, swapchain_extent,
                    swapchain_image_views, last_acquire, last_resize,
                    flush_failures >>
    /\ UNCHANGED << mainVars, engineVars, swapVars, cursorVars >>

(***************************************************************************)
(* Swapchain properties: create_swapchain of render_manager.rs, and        *)
(* swapchain_properties of vulkan_init.rs with bort's Swapchain::new.      *)
(***************************************************************************)
\* largest image count a surface reports
MaxImageCount == 3

CompositeAlphas == {"POST_MULTIPLIED", "OPAQUE", "PRE_MULTIPLIED", "INHERIT"}

\* a surface format and whether its encoding is sRGB
SurfaceFormat(name, is_srgb) == [format |-> name, srgb |-> is_srgb]

B8G8R8A8_UNORM == SurfaceFormat("B8G8R8A8_UNORM", FALSE)

B8G8R8A8_SRGB == SurfaceFormat("B8G8R8A8_SRGB", TRUE)

R8G8B8A8_SRGB == SurfaceFormat("R8G8B8A8_SRGB", TRUE)

\* the lists a driver may answer: at least one format, FIFO always supported
SurfaceFormatLists ==
    {<< B8G8R8A8_UNORM >>, << B8G8R8A8_SRGB >>,
     << B8G8R8A8_UNORM, B8G8R8A8_SRGB >>, << B8G8R8A8_SRGB, B8G8R8A8_UNORM >>,
     << B8G8R8A8_UNORM, R8G8B8A8_SRGB, B8G8R8A8_SRGB >>}

PresentModeLists ==
    {<< "FIFO" >>, << "FIFO", "MAILBOX" >>, << "MAILBOX", "FIFO" >>,
     << "IMMEDIATE", "FIFO" >>, << "IMMEDIATE", "MAILBOX", "FIFO", "FIFO_RELAXED" >>}

\* min_image_count is at least 1; max_image_count is 0 when the surface has no
\* upper limit, and at least min_image_count otherwise
ImageCountRanges ==
    {r \in [min_image_count : 1..MaxImageCount, max_image_count : 0..MaxImageCount] :
        r.max_image_count = 0 \/ r.max_image_count >= r.min_image_count}

\* the current transform is one of the supported transforms
SurfaceTransforms ==
    {[supported_transforms |-> {"IDENTITY"}, current_transform |-> "IDENTITY"],
     [supported_transforms |-> {"IDENTITY", "ROTATE_90"},
      current_transform |-> "ROTATE_90"],
     [supported_transforms |-> {"ROTATE_90"}, current_transform |-> "ROTATE_90"],
     [supported_transforms |-> {"ROTATE_90", "ROTATE_180"},
      current_transform |-> "ROTATE_180"]}

Surfaces ==
    [supported_composite_alpha : SUBSET CompositeAlphas,
     transforms : SurfaceTransforms,
     surface_formats : SurfaceFormatLists,
     present_modes : PresentModeLists,
     image_counts : ImageCountRanges,
     extents : SurfaceExtents]

no_swapchain ==
    [by |-> "none", result |-> "none", image_format |-> B8G8R8A8_UNORM,
     composite_alpha |-> "none", present_mode |-> "none", image_count |-> 0,
     image_extent |-> Extent2D(0, 0), pre_transform |-> "none"]

\* the surface of a window whose size the swapchain follows
Surface_pinned ==
    /\ device_surface = [supported_composite_alpha |-> {"OPAQUE"},
                         transforms |-> [supported_transforms |-> {"IDENTITY"},
                                         current_transform |-> "IDENTITY"],
                         surface_formats |-> << B8G8R8A8_UNORM >>,
                         present_modes |-> << "FIFO" >>,
                         image_counts |-> [min_image_count |-> 2,
                                           max_image_count |-> 0],
                         extents |-> free_surface]
    /\ window_dimensions = Extent2D(1, 2)
    /\ swapchain_props = no_swapchain

Surface_any ==
    /\ device_surface \in Surfaces
    /\ window_dimensions \in WindowSizes
    /\ swapchain_props = no_swapchain

\* Iterator::find on a list: the first element that is one of wanted, if any
find_first(list, wanted) ==
    LET hits == {i \in 1..Len(list) : list[i] \in wanted}
    IN IF hits = {} THEN << >>
       ELSE << list[CHOOSE i \in hits : \A j \in hits : i <= j] >>

\* choose_composite_alpha (bort): the first supported flag in the order of
\* preference; expect() panics when none is supported
composite_alpha_preference_order ==
    << "POST_MULTIPLIED", "OPAQUE", "PRE_MULTIPLIED", "INHERIT" >>

choose_composite_alpha(supported_composite_alpha) ==
    LET found == find_first(composite_alpha_preference_order,
                            supported_composite_alpha)
    IN IF found = << >> THEN "panic" ELSE found[1]

\* create_swapchain (render_manager.rs): max_by_key over the supported modes
composite_alpha_key ==
    [c \in CompositeAlphas |->
        CASE c = "POST_MULTIPLIED" -> 4
          [] c = "INHERIT" -> 3
          [] c = "OPAQUE" -> 2
          [] c = "PRE_MULTIPLIED" -> 1]

create_swapchain_composite_alpha(supported_composite_alpha) ==
    IF supported_composite_alpha = {} THEN "panic"
    ELSE CHOOSE c \in supported_composite_alpha :
            \A d \in supported_composite_alpha :
                composite_alpha_key[d] <= composite_alpha_key[c]

\* get_first_srgb_surface_format (bort): the first sRGB format of the list,
\* otherwise the first format
get_first_srgb_surface_format(surface_formats) ==
    LET found == find_first(surface_formats,
                            {f \in {surface_formats[i] : i \in 1..Len(surface_formats)} :
                                f.srgb})
    IN IF found = << >> THEN surface_formats[1] ELSE found[1]

\* create_swapchain (render_manager.rs): MAILBOX if the surface has it, else FIFO
create_swapchain_present_mode_first(present_modes) == present_modes[1]

create_swapchain_present_mode(present_modes) ==
    LET found == find_first(present_modes, {"MAILBOX"})
    IN IF found = << >> THEN "FIFO" ELSE found[1]

\* Swapchain::new (bort): the same choice
Swapchain_new_present_mode(present_modes) ==
    LET found == find_first(present_modes, {"MAILBOX"})
    IN IF found = << >> THEN "FIFO" ELSE found[1]

min(a, b) == IF a < b THEN a ELSE b

max(a, b) == IF a > b THEN a ELSE b

\* Swapchain::new (bort): max(min(preferred, max_image_count), min_image_count)
Swapchain_new_image_count(preferred_image_count, image_counts) ==
    max(min(preferred_image_count, image_counts.max_image_count),
        image_counts.min_image_count)

\* Swapchain::new (bort): the window's size when current_extent is undefined,
\* the current extent otherwise
Swapchain_new_extent(extents, dimensions) ==
    IF extents.current_extent.width = u32_MAX THEN dimensions
    ELSE extents.current_extent

\* Swapchain::new (bort): IDENTITY when the surface supports it, the surface's
\* current transform otherwise
Swapchain_new_pre_transform_identity(transforms) == "IDENTITY"

Swapchain_new_pre_transform(transforms) ==
    IF "IDENTITY" \in transforms.supported_transforms THEN "IDENTITY"
    ELSE transforms.current_transform

\* create_swapchain (render_manager.rs): the first surface format, the
\* composite alpha with the largest key, MAILBOX or FIFO, the surface's
\* min_image_count and the window's inner size; Swapchain::new refuses an
\* extent outside the surface's range
create_swapchain ==
    LET composite_alpha ==
            create_swapchain_composite_alpha(device_surface.supported_composite_alpha)
    IN  /\ swapchain_props' =
              IF composite_alpha = "panic"
              THEN [no_swapchain EXCEPT !.by = "create_swapchain", !.result = "panic"]
              ELSE [by |-> "create_swapchain",
                    \* the other fields of SwapchainCreateInfo are the defaults:
                    \* pre_transform is Identity, which Swapchain::new refuses
                    \* when the surface does not support it
                    pre_transform |-> "IDENTITY",
                    result |-> IF /\ image_extent_supported(device_surface.extents,
                                                            window_dimensions)
                                  /\ "IDENTITY" \in
                                        device_surface.transforms.supported_transforms
                               THEN "Ok" ELSE "Err",
                    image_format |-> device_surface.surface_formats[1],
                    composite_alpha |-> composite_alpha,
                    present_mode |->
                        create_swapchain_present_mode(device_surface.present_modes),
                    image_count |-> device_surface.image_counts.min_image_count,
                    image_extent |-> window_dimensions]
        /\ UNCHANGED << device_surface, window_dimensions >>
        /\ UNCHANGED << mainVars, engineVars, renderVars, cursorVars >>

\* swapchain_properties (vulkan_init.rs) with Swapchain::new (bort): the
\* preferred image count is MAX_FRAMES_IN_FLIGHT, the composite alpha comes from
\* choose_composite_alpha, the surface format is the first of the list; the
\* image count, the extent and the present mode are worked out by bort, which
\* hands them to vkCreateSwapchainKHR unchecked: what the driver answers to an
\* extent outside the surface's range is not defined
swapchain_properties ==
    \E driver_result \in {"Ok", "Err"} :
    LET preferred_image_count == MAX_FRAMES_IN_FLIGHT
        composite_alpha ==
            choose_composite_alpha(device_surface.supported_composite_alpha)
    IN  /\ swapchain_props' =
              IF composite_alpha = "panic"
              THEN [no_swapchain EXCEPT !.by = "swapchain_properties",
                                        !.result = "panic"]
              ELSE [by |-> "swapchain_properties",
                    pre_transform |->
                        Swapchain_new_pre_transform(device_surface.transforms),
                    result |-> IF image_extent_supported(
                                      device_surface.extents,
                                      Swapchain_new_extent(device_surface.extents,
                                                           window_dimensions))
                               THEN "Ok" ELSE driver_result,
                    image_format |-> device_surface.surface_formats[1],
                    composite_alpha |-> composite_alpha,
                    present_mode |->
                        Swapchain_new_present_mode(device_surface.present_modes),
                    image_count |->
                        Swapchain_new_image_count(preferred_image_count,
                                                  device_surface.image_counts),
                    image_extent |->
                        Swapchain_new_extent(device_surface.extents,
                                             window_dimensions)]
        /\ UNCHANGED << device_surface, window_dimensions >>
        /\ UNCHANGED << mainVars, engineVars, renderVars, cursorVars >>

(***************************************************************************)
(* CursorState (cursor_state.rs).                                          *)
(***************************************************************************)
DVec2(x, y) == [x |-> x, y |-> y]

\* the cursor positions that are followed: from any of them the cursor can
\* stay, move along one axis, or move along both
Positions == {DVec2(0, 0), DVec2(1, 0), DVec2(0, 1), DVec2(1, 1)}

\* the variants of MouseButton, in the order that gives the priority
MOUSE_BUTTONS_middle_first == << "Middle", "Right", "Left" >>

MOUSE_BUTTONS == << "Left", "Right", "Middle" >>

MouseButtons == {"Left", "Right", "Middle"}

\* ButtonStates::default()
ButtonStates_default == [button \in MouseButtons |-> FALSE]

\* MouseButton::from_winit: the three supported buttons, Err for any other
MouseButton_from_winit(winit_button) ==
    IF winit_button \in MouseButtons
    THEN [res |-> "Ok", button |-> winit_button]
    ELSE [res |-> "Err", button |-> "none"]

\* CursorState::new
CursorState_new ==
    /\ position = DVec2(0, 0)
    /\ position_previous = DVec2(0, 0)
    /\ position_frame_change = DVec2(0, 0)
    /\ is_pressed = ButtonStates_default
    /\ is_pressed_previous = ButtonStates_default
    /\ which_dragging = "None"
    /\ cursor_icon = "Default"
    /\ drag_button_released = FALSE

\* CursorState::set_position
CursorState_set_position(new_position) ==
    /\ position' = new_position
    /\ UNCHANGED << position_previous, position_frame_change, is_pressed,
                    is_pressed_previous, which_dragging, cursor_icon,
                    drag_button_released >>
    /\ UNCHANGED << mainVars, engineVars, renderVars, swapVars >>

\* the value set_click_state records for the button
click_state_ignores_capture(state, cursor_captured) == state = "Pressed"

click_state(state, cursor_captured) == ~cursor_captured /\ state = "Pressed"

\* CursorState::set_click_state
CursorState_set_click_state(winit_button, state, cursor_captured) ==
    LET r == MouseButton_from_winit(winit_button)
    IN  /\ IF r.res = "Ok"
           THEN /\ is_pressed' = [is_pressed EXCEPT ![r.button] =
                                      click_state(state, cursor_captured)]
                /\ drag_button_released' =
                      (drag_button_released
                       \/ (state = "Released" /\ which_dragging = r.button))
           ELSE UNCHANGED << is_pressed, drag_button_released >>
        /\ UNCHANGED << position, position_previous, position_frame_change,
                        is_pressed_previous, which_dragging, cursor_icon >>
        /\ UNCHANGED << mainVars, engineVars, renderVars, swapVars >>

\* has_moved of process_frame
has_moved_on_either_axis(change) == change.x # 0 \/ change.y # 0

has_moved(change) == change.x # 0 /\ change.y # 0

\* the loop over MOUSE_BUTTONS in process_frame: the first button of the list,
\* from index i on, that is held in this frame and the previous one while the
\* cursor has moved, "None" when there is none
RECURSIVE first_dragging_button(_, _, _)
first_dragging_button(buttons, i, moved) ==
    IF i > Len(buttons) THEN "None"
    ELSE IF is_pressed[buttons[i]] /\ is_pressed_previous[buttons[i]] /\ moved
    THEN buttons[i]
    ELSE first_dragging_button(buttons, i + 1, moved)

\* CursorState::process_frame
CursorState_process_frame ==
    LET change == DVec2(position.x - position_previous.x,
                        position.y - position_previous.y)
        start == first_dragging_button(MOUSE_BUTTONS, 1, has_moved(change))
    IN  /\ position_frame_change' = change
        /\ position_previous' = position
        /\ IF which_dragging # "None"
           THEN IF ~is_pressed[which_dragging]
                THEN /\ which_dragging' = "None"
                     /\ cursor_icon' = "Default"
                ELSE UNCHANGED << which_dragging, cursor_icon >>
           ELSE IF start # "None"
                THEN /\ which_dragging' = start
                     /\ cursor_icon' = "Grabbing"
                ELSE UNCHANGED << which_dragging, cursor_icon >>
        /\ is_pressed_previous' = is_pressed
        /\ drag_button_released' = FALSE
        /\ UNCHANGED << position, is_pressed >>
        /\ UNCHANGED << mainVars, engineVars, renderVars, swapVars >>

(***************************************************************************)
(* SpecMain.                                                               *)
(***************************************************************************)
WindowThread ==
    \/ \E window_id \in {"primary", "other"}, event \in {"CloseRequested", "Resized"} :
          window_event(window_id, event)
    \/ exiting
    \/ wait_for_engine_thread_closure
    \/ run_app_returns

EngineThread ==
    \/ EngineController_new
    \/ engine_poll
    \/ get_events
    \/ engine_work

NextMain ==
    \/ WindowThread
    \/ run_app_fails
    \/ EngineThread

(***************************************************************************)
(* SpecEngine.                                                             *)
(***************************************************************************)
EngineEvents ==
    {"Init", "CloseRequested", "Resized", "ScaleFactorChanged", "CursorMoved",
     "MainEventsCleared"}

RenderThread ==
    \/ render_thread_poll
    \/ render_thread_frame

NextEngine ==
    \* the events that run no tick, then the ticks
    \/ \E event \in EngineEvents \ {"MainEventsCleared"} :
          Engine_control_flow(event, TRUE, TRUE, Len(PublishOrder))
    \/ \E textures_empty \in BOOLEAN, primitives_empty \in BOOLEAN,
          alive_for \in 0..Len(PublishOrder) :
          Engine_control_flow("MainEventsCleared", textures_empty,
                              primitives_empty, alive_for)
    \/ stop_wait_loop
    \/ clock_tick
    \/ RenderThread

(***************************************************************************)
(* SpecRender.                                                             *)
(***************************************************************************)
\* the calls of render_frame that recreate the swapchain (the recording and the
\* flush are not reached), then those that do not (recreate_swapchain is not
\* called)
NextRender ==
    \/ \E window_resize \in BOOLEAN,
          recreate \in {"Ok", "ErrRecreate", "ErrRenderImage"},
          surface \in SurfaceSnapshots :
          render_frame(window_resize, "OutOfDate", TRUE, "Ok", recreate, surface)
    \/ \E acquire \in {"Ok", "Suboptimal", "Err"},
          record \in BOOLEAN,
          flush \in {"Ok", "OutOfDate", "Err", "ExecutePanic"} :
          /\ ~recreate_swapchain
          /\ flush = "Err" => flush_failures < MaxFlushFailures
          /\ render_frame(FALSE, acquire, record, flush, "Ok", no_surface)
    \/ gpu_complete

(***************************************************************************)
(* SpecSwapchain.                                                          *)
(***************************************************************************)
NextSwapchain ==
    \/ create_swapchain
    \/ swapchain_properties

Init ==
    /\ start_main_thread
    /\ Engine_new
    /\ RenderManager_new
    /\ Surface_pinned
    /\ CursorState_new

\* the renderer takes no step in SpecMain and SpecEngine: one surface is enough
InitOneSurface ==
    Init /\ image_count = 2 /\ swapchain_extent = Extent2D(1, 2)

SpecMain == InitOneSurface /\ [][NextMain]_vars

SpecEngine == InitOneSurface /\ [][NextEngine]_vars

SpecRender == Init /\ [][NextRender]_vars

\* the swapchain is asked for on any surface a driver may report
InitSwapchain ==
    /\ start_main_thread
    /\ Engine_new
    /\ RenderManager_new
    /\ image_count = 2
    /\ swapchain_extent = Extent2D(1, 2)
    /\ Surface_any
    /\ CursorState_new

SpecSwapchain == InitSwapchain /\ [][NextSwapchain]_vars

\* the calls Engine makes on its CursorState: set_position and set_click_state
\* from process_input, process_frame from the tick
NextCursor ==
    \/ \E new_position \in Positions : CursorState_set_position(new_position)
    \/ \E winit_button \in MouseButtons \cup {"Other"},
          state \in {"Pressed", "Released"}, cursor_captured \in BOOLEAN :
          CursorState_set_click_state(winit_button, state, cursor_captured)
    \/ CursorState_process_frame

SpecCursor == InitOneSurface /\ [][NextCursor]_vars

\* the engine's wait loop keeps running and time passes; the render thread is
\* scheduled fairly as long as it is not blocked
FairSpecEngine ==
    /\ SpecEngine
    /\ WF_vars(stop_wait_loop)
    /\ WF_vars(clock_tick)
    /\ WF_vars(RenderThread)

\* the window thread's own steps and the engine thread are scheduled fairly;
\* the arrival of window events and a failure of run_app are up to the platform
FairSpecMain ==
    /\ SpecMain
    /\ WF_vars(exiting)
    /\ WF_vars(wait_for_engine_thread_closure)
    /\ WF_vars(run_app_returns)
    /\ WF_vars(EngineThread)

(***************************************************************************)
(* Claims about the engine and its render thread (SpecEngine).             *)
(***************************************************************************)
\* the command the render thread's next poll returns
RenderCommandVisible == latest(render_command).latest

\* C1: once Quit is the command the render thread sees or will see, no later
\* step of the engine replaces it by RenderFrame, and a render thread that has
\* read Quit starts no further frame.
C1_QuitNeverFollowedByRenderFrame ==
    [][ /\ (RenderCommandVisible = "Quit" => RenderCommandVisible' = "Quit")
        /\ (rt_cmd_seen = "Quit" => (rt_pc' = "finished" /\ rt_frames' = rt_frames))
      ]_vars

\* C1 witness: Quit has been published while the render thread was blocked, the
\* timeout has passed, and control_flow was called again afterwards.
C1_Witness ==
    /\ RenderCommandVisible = "Quit"
    /\ render_command.pending = << "Quit" >>
    /\ control_flow = "Exit"
    /\ eng_pc = "idle"
    /\ ignored_events
    /\ rt_pc = "hung"

\* C6: the wait loop of stop_render_thread always ends; it is left only when
\* the render thread has finished or when more than the timeout has elapsed,
\* and then the hang is logged.
C6_StopRenderThreadTerminates ==
    /\ (eng_pc = "stop_wait") ~> (eng_pc = "idle")
    /\ [][ (eng_pc = "stop_wait" /\ eng_pc' = "idle") =>
              \/ /\ rt_pc = "finished"
                 /\ stop_log' = "render thread quit."
              \/ /\ elapsed > timeout_millis
                 /\ stop_log' = "render thread hanging longer than timeout"
         ]_vars

\* C6 witness: the render thread never finished and the engine left the loop
\* with the hang logged.
C6_Witness ==
    /\ eng_pc = "idle"
    /\ stop_calls = 1
    /\ rt_pc = "hung"
    /\ elapsed > timeout_millis
    /\ stop_log = "render thread hanging longer than timeout"

(***************************************************************************)
(* Claims about the window thread and the engine thread (SpecMain).        *)
(***************************************************************************)
\* C2: under every interleaving of sends and drains, what the drains returned,
\* followed by what the running drain holds and what is still buffered, is a
\* prefix of what was sent: nothing is skipped, duplicated or reordered.
C2_QueueFifo ==
    /\ IsPrefix(drained, sent)
    /\ IsPrefix(drained \o events \o window_event_queue, sent)

\* C2 witness: two drains returned events, and a send ran during a drain.
C2_Witness ==
    /\ Len(drained) >= 2
    /\ Len(last_result) >= 1
    /\ Len(last_result) < Len(drained)
    /\ sent_during_call

\* C3: a get_events call during which nothing is sent returns exactly the
\* events buffered when it was called, oldest first, and leaves the buffer
\* empty; with nothing buffered it returns the empty Vec at its first iteration.
C3_DrainReturnsSentSequence ==
    [][ (engine_pc = "drain" /\ engine_pc' = "work" /\ ~sent_during_call) =>
            /\ last_result' = pending_at_call
            /\ window_event_queue' = << >>
            /\ (pending_at_call = << >> => events = << >>)
      ]_vars

\* C3 witness: a drain of two events sent before the call has returned.
C3_Witness ==
    /\ engine_pc = "work"
    /\ ~sent_during_call
    /\ Len(pending_at_call) >= 2
    /\ last_result = pending_at_call

\* C4: a read returns the value published last, however many publishes came
\* since the read before; and the publish of the window thread is enabled
\* whatever the engine thread is doing.
C4_ValueChannelFreshness ==
    /\ latest_command(engine_command).latest = Last(published)
    /\ (unread = 0 => cmd_seen = Last(published))
    /\ (main_pc = "event_loop" /\ events_delivered < MaxEvents) =>
          ENABLED window_event("primary", "CloseRequested")

\* C4 witness: two publishes (Run, then Quit) came before the read.
C4_Witness ==
    /\ unread_at_read >= 2
    /\ unread = 0
    /\ cmd_seen = "Quit"

QuitPublishes == Cardinality({i \in 1..Len(published) : published[i] = "Quit"})

\* C5: the engine thread ends at most once; once Quit is published the next
\* read returns Quit however often it was published, and publishing Quit on
\* top of an unread Quit leaves the channel as it is.
C5_ShutdownIdempotence ==
    /\ engine_exits <= 1
    /\ (engine_pc = "finished") = (engine_exits = 1)
    /\ QuitPublishes >= 1 =>
          /\ latest_command(engine_command).latest = "Quit"
          /\ unread >= 1 => update(engine_command, TRUE, "Quit") = engine_command
    /\ cmd_seen = "Quit" => (engine_pc = "finished" /\ engine_result = "ok")

\* C5 witness: Quit was published twice before the engine thread read it, and
\* the thread has ended once.
C5_Witness ==
    /\ QuitPublishes >= 2
    /\ unread_at_read >= 3
    /\ cmd_seen = "Quit"
    /\ engine_exits = 1

\* C7: the window thread's wait for the engine thread is bounded: once
\* exiting() has started the join, the window thread finishes its shutdown.
C7_JoinIsBounded == (main_pc = "join") ~> (main_pc = "exited")

\* C8: a poll that follows the publish of Quit reads Quit and ends the loop
\* without another unit of work, and under fair scheduling a thread that is not
\* blocked for ever reaches that poll and terminates.
C8_QuitTakesEffect ==
    /\ [][ (engine_pc = "poll" /\ engine_pc' # "poll" /\ Last(published) = "Quit") =>
              (cmd_seen' = "Quit" /\ engine_pc' = "finished" /\ engine_result' = "ok")
         ]_vars
    /\ (Last(published) = "Quit") ~> (engine_pc \in {"finished", "hung"})

\* C8 witness: the engine thread did work, then read Quit and ended cleanly.
C8_Witness ==
    /\ Len(drained) >= 1
    /\ Last(published) = "Quit"
    /\ cmd_seen = "Quit"
    /\ engine_pc = "finished"
    /\ engine_result = "ok"

(***************************************************************************)
(* Claims about render_frame and the swapchain (SpecRender).               *)
(***************************************************************************)
\* every frame that was recorded used image views of the swapchain it was
\* recorded for
FramesMatchTheirSwapchain ==
    /\ \A i \in 1..Len(in_flight) :
          in_flight[i].views_gen = in_flight[i].swapchain_gen
    /\ \A i \in 1..Len(last_frame.recorded) :
          /\ last_frame.recorded[i].views_gen = swapchain_gen
          /\ last_frame.recorded[i].swapchain_gen = swapchain_gen

C10_FrameBudget == Len(in_flight) <= MAX_FRAMES_IN_FLIGHT

\* the extent the surface asks for: its current extent, or the window's size
\* when the current extent is undefined, kept within the surface's range
clamp(x, lo, hi) == IF x < lo THEN lo ELSE IF x > hi THEN hi ELSE x

clamped_surface_extent(surface) ==
    LET caps == surface.caps
        e == IF caps.current_extent.width = u32_MAX THEN surface.inner_size
             ELSE caps.current_extent
    IN Extent2D(clamp(e.width, caps.min_image_extent.width,
                      caps.max_image_extent.width),
                clamp(e.height, caps.min_image_extent.height,
                      caps.max_image_extent.height))

C12_AcquireOutOfDateSkipsFrame ==
    /\ [][ last_acquire' = "OutOfDate" => Len(in_flight') <= Len(in_flight) ]_vars
    /\ [](last_acquire = "OutOfDate" =>
             /\ last_frame.path = "recreate"
             /\ last_frame.recorded = << >>
             /\ last_frame.flush = "none"
             /\ last_frame.ret = (IF last_frame.recreate = "Ok" THEN "Ok" ELSE "Err"))

\* C12 witness: acquire answered OutOfDate while a frame was in flight and the
\* recreation succeeded.
C12_Witness ==
    /\ last_acquire = "OutOfDate"
    /\ last_frame.ret = "Ok"
    /\ swapchain_gen = 1
    /\ Len(in_flight) = 1

\* C13: a suboptimal acquire or an OutOfDate flush in a call that recorded its
\* frame leaves the trigger set and the call returns Ok; a render_frame call
\* made while the trigger is set goes through recreate_swapchain and acquires
\* nothing.
C13_SuboptimalSetsTrigger ==
    /\ []((/\ last_frame.path \in {"submitted", "flush_failed"}
           /\ (last_acquire = "Suboptimal" \/ last_frame.flush = "OutOfDate"))
          => (last_frame.ret = "Ok" /\ recreate_swapchain /\ render_pc = "running"))
    /\ [][ (recreate_swapchain /\ last_frame' # last_frame) =>
              (last_frame'.path = "recreate" /\ last_acquire' = "none") ]_vars

\* C13 witness: the frame after a suboptimal acquire was submitted and the
\* next call recreated the swapchain.
C13_Witness ==
    /\ last_frame.path = "recreate"
    /\ last_frame.ret = "Ok"
    /\ last_acquire = "none"
    /\ ~last_resize
    /\ triggers = 1
    /\ swapchain_gen = 1
    /\ Len(in_flight) = 1

\* C14: whenever recreate_swapchain replaces the swapchain, its image views or
\* the render image, no submitted frame is still unsignaled.
C14_RecreateWaitsForFrames ==
    [][ (\/ swapchain_gen' # swapchain_gen
         \/ views_gen' # views_gen
         \/ render_image_gen' # render_image_gen) => in_flight = << >> ]_vars

Range(list) == {list[i] : i \in 1..Len(list)}

swapchain_asked == swapchain_props.by # "none"

swapchain_created == swapchain_asked /\ swapchain_props.result = "Ok"

\* C16: the chosen composite alpha is the first supported one in the order
\* POST_MULTIPLIED, OPAQUE, PRE_MULTIPLIED, INHERIT, and the selection panics
\* only when the surface supports none.
C16_CompositeAlphaPreference ==
    swapchain_asked =>
        LET supported == device_surface.supported_composite_alpha
            rank == [c \in CompositeAlphas |->
                        CASE c = "POST_MULTIPLIED" -> 1
                          [] c = "OPAQUE" -> 2
                          [] c = "PRE_MULTIPLIED" -> 3
                          [] c = "INHERIT" -> 4]
        IN /\ (supported = {}) <=> (swapchain_props.result = "panic")
           /\ swapchain_created =>
                 /\ swapchain_props.composite_alpha \in supported
                 /\ \A c \in supported :
                       rank[swapchain_props.composite_alpha] <= rank[c]

\* C17: the chosen present mode is MAILBOX if the surface reports MAILBOX and
\* FIFO otherwise, for both ways a swapchain is created.
C17_PresentModeFallback ==
    (swapchain_asked /\ swapchain_props.result # "panic") =>
        swapchain_props.present_mode =
            (IF "MAILBOX" \in Range(device_surface.present_modes)
             THEN "MAILBOX" ELSE "FIFO")

\* C17 witness: a surface that reports only FIFO got FIFO.
C17_Witness ==
    /\ swapchain_props.by = "create_swapchain"
    /\ device_surface.present_modes = << "FIFO" >>
    /\ swapchain_props.present_mode = "FIFO"

\* C18: the surface format of every swapchain the renderer creates is the first
\* sRGB format of the surface's list if there is one, else the first format.
C18_SurfaceFormatPrefersSrgb ==
    swapchain_created =>
        swapchain_props.image_format =
            get_first_srgb_surface_format(device_surface.surface_formats)

\* C19: the image count is at least min_image_count, at most max_image_count
\* where the surface has an upper limit, and is the preferred count
\* MAX_FRAMES_IN_FLIGHT whenever that lies in the surface's range.
C19_ImageCountClamped ==
    swapchain_created =>
        LET counts == device_surface.image_counts
            unlimited == counts.max_image_count = 0
        IN /\ swapchain_props.image_count >= counts.min_image_count
           /\ (unlimited \/ swapchain_props.image_count <= counts.max_image_count)
           /\ (/\ MAX_FRAMES_IN_FLIGHT >= counts.min_image_count
               /\ (unlimited \/ MAX_FRAMES_IN_FLIGHT <= counts.max_image_count))
              => swapchain_props.image_count = MAX_FRAMES_IN_FLIGHT

\* C20: the extent asked for is the surface's current extent, or the window's
\* size when the current extent is undefined, kept within the surface's
\* min/max extent.
C20_ExtentClamped ==
    (swapchain_asked /\ swapchain_props.result # "panic") =>
        swapchain_props.image_extent =
            clamped_surface_extent([inner_size |-> window_dimensions,
                                    caps |-> device_surface.extents])

\* C21: the pre-transform of a created swapchain is IDENTITY whenever the
\* surface supports IDENTITY, and the surface's current transform otherwise.
C21_PreTransform ==
    swapchain_created =>
        swapchain_props.pre_transform =
            (IF "IDENTITY" \in device_surface.transforms.supported_transforms
             THEN "IDENTITY"
             ELSE device_surface.transforms.current_transform)

\* C21 witness: on a surface without IDENTITY the swapchain got the surface's
\* current transform.
C21_Witness ==
    /\ swapchain_created
    /\ swapchain_props.by = "swapchain_properties"
    /\ device_surface.transforms.supported_transforms = {"ROTATE_90", "ROTATE_180"}
    /\ swapchain_props.pre_transform = "ROTATE_180"

(***************************************************************************)
(* Claims about start-up, shutdown and errors of the window thread         *)
(* (SpecMain).                                                             *)
(***************************************************************************)
\* C22: a window_event callback that sends an event after the engine thread
\* has dropped its receiver gets an error from send, buffers nothing and calls
\* event_loop.exit().
C22_SendToDroppedReceiverExits ==
    [][ (/\ events_delivered' = events_delivered + 1
         /\ engine_pc = "finished")
        => (/\ exit_requested'
            /\ window_event_queue' = window_event_queue
            /\ sent' = sent) ]_vars

\* C22 witness: the engine thread ended with an error, no close was requested,
\* and the next event made the window thread leave its event loop.
C22_Witness ==
    /\ engine_result = "err"
    /\ published = << "Run" >>
    /\ events_delivered = 1
    /\ exit_requested
    /\ main_pc = "join"

\* C23: a publish to the render thread that fails because the render thread
\* dropped its receivers is fatal to the engine: the call of control_flow in
\* which the first publish fails sets ControlFlow::Exit and runs
\* stop_render_thread, and once a publish has failed the engine processes no
\* further frame.
C23_ChannelClosedIsFatal ==
    /\ [](publish_failed => control_flow = "Exit" /\ stop_calls >= 1)
    /\ [][ (publish_failed' /\ ~publish_failed)
           => (control_flow' = "Exit" /\ stop_calls' = stop_calls + 1
               /\ eng_pc' = "stop_wait" /\ elapsed' = 0) ]_vars
    /\ [][ publish_failed
           => (main_thread_frame_number' = main_thread_frame_number
               /\ camera_channel'.latest = camera_channel.latest) ]_vars

\* C23 witness: the render thread returned with an error after a frame, a
\* publish of the engine failed, and the engine is in stop_render_thread's wait.
C23_Witness ==
    /\ publish_failed
    /\ rt_result = "err"
    /\ main_thread_frame_number = 1
    /\ control_flow = "Exit"
    /\ stop_calls = 1
    /\ eng_pc = "stop_wait"

\* C24: an owner that finds its subordinate thread finished logs which of the
\* outcomes it finished with; for the engine and its render thread, the message
\* stop_render_thread logs for a finished render thread is logged only when the
\* render thread returned cleanly on Quit, a fatal end being logged as such.
C24_OwnerClassifiesOutcome ==
    stop_log = "render thread quit." => rt_result = "quit"

\* C29: a flush that keeps failing is escalated: render_frame does not return Ok
\* for a whole run of MaxFlushFailures submissions in a row whose flush failed
\* with an error other than OutOfDate.
C29_FlushFailuresEscalate ==
    ~(flush_failures = MaxFlushFailures /\ render_pc = "running"
      /\ last_frame.ret = "Ok" /\ last_frame.path = "flush_failed"
      /\ last_frame.flush = "Err")

\* C30: after each successful process_frame the camera and the GUI primitives
\* the render thread would read are those of that tick; GUI primitives of an
\* earlier tick are never left for it (0 stands for the channel's initial, empty
\* value, which draws nothing).
C30_SnapshotIsOfThisTick ==
    main_thread_frame_number >= 1 =>
        /\ latest(camera_channel).latest = main_thread_frame_number
        /\ latest(gui_primitives).latest \in {0, main_thread_frame_number}

\* C25: the join handle is taken out of MainThread at most once, only by
\* exiting, and a window thread that finished its shutdown took it once and
\* joined it once.
C25_HandleConsumedOnce ==
    /\ [](handle_taken <= 1)
    /\ [][ handle_taken' # handle_taken =>
              (handle_taken = 0 /\ main_pc = "event_loop" /\ main_pc' = "join") ]_vars
    /\ [][ join_log' # join_log => (join_log = "none" /\ handle_taken = 1) ]_vars
    /\ [](main_pc \in {"exited", "returned"} =>
             (handle_taken = 1 /\ join_log # "none"))

\* C25 witness: after two close requests and another event the window thread
\* returned, having taken and joined the handle.
C25_Witness ==
    /\ main_pc = "returned"
    /\ events_delivered = MaxEvents
    /\ QuitPublishes = 2
    /\ handle_taken = 1
    /\ join_log = "shut down cleanly"

\* C26: before the engine thread's first read Run (or a later Quit) is
\* published, the handle is kept until the event loop is asked to exit; every
\* read of the command channel by the engine thread returns Run or Quit, never
\* an absent command, and Quit only after a close published it.
C26_FirstCommandIsRun ==
    /\ [](engine_pc = "init" =>
             latest_command(engine_command).latest \in {"Run", "Quit"})
    /\ [](~exit_requested => handle_taken = 0)
    /\ [][ cmd_seen' # cmd_seen =>
              (/\ cmd_seen' \in {"Run", "Quit"}
               /\ (cmd_seen' = "Quit" => QuitPublishes >= 1)) ]_vars
    /\ [](engine_pc \in {"drain", "work"} => cmd_seen = "Run")

\* C26 witness: the first read happened after a close request and returned
\* Quit.
C26_Witness ==
    /\ cmd_seen = "Quit"
    /\ unread_at_read = 2
    /\ engine_result = "ok"
    /\ drained = << >>

\* C27 as stated: once the engine thread has ended while the window thread is
\* in its event loop, the window thread eventually leaves the loop.
C27_EngineEndStopsWindowThread ==
    (engine_pc = "finished" /\ main_pc = "event_loop") ~> (main_pc # "event_loop")

\* C27 as amended: if the OS keeps delivering window events, the window thread
\* leaves its event loop after the engine thread has ended, and it goes on to
\* join and return unless run_app itself failed; the event that is handled
\* after the engine thread's end is the one that asks the loop to exit.
C27_EngineEndStopsWindowThreadOnNextEvent ==
    /\ WF_vars(\E window_id \in {"primary", "other"},
                  event \in {"CloseRequested", "Resized"} :
                  window_event(window_id, event))
       => ((engine_pc = "finished" /\ main_pc = "event_loop"
            /\ events_delivered < MaxEvents) ~> (main_pc \in {"returned", "failed"}))
    /\ [][ (engine_pc = "finished" /\ events_delivered' # events_delivered)
           => exit_requested' ]_vars

\* C27 witness: the engine thread panicked, no close was ever requested, and
\* the window thread joined it and returned.
C27_Witness ==
    /\ engine_result = "panic"
    /\ QuitPublishes = 0
    /\ main_pc = "returned"
    /\ join_log = "panic on engine thread"

\* C28: a run in which the engine thread ended with an error or a panic does
\* not end with start_main_thread returning Ok, the success exit status.
C28_ErrorGivesNonZeroExit ==
    main_pc = "returned" => engine_result = "ok"

\* C31: no event that was enqueued is lost: every event sent is among the
\* events get_events has returned, the events the running call has dequeued, or
\* the events still buffered, also after the Sender has been dropped.
C31_NoQueuedEventDropped ==
    drained \o events \o window_event_queue = sent

\* C32: a read of the command channel returns the command published last and
\* leaves it readable: a read that follows a read with no publish in between
\* returns the same command, reading twice gives what reading once gives, and
\* what is read is one command, Run or Quit.
C32_ReadDoesNotConsume ==
    /\ [][ (engine_pc = "poll" /\ engine_pc' # "poll") =>
              /\ cmd_seen' = Last(published)
              /\ (unread = 0 => cmd_seen' = cmd_seen) ]_vars
    /\ [](/\ latest_command(latest_command(engine_command))
                = latest_command(engine_command)
          /\ latest_command(latest_command(engine_command)).latest
                \in {"Run", "Quit"})

\* C32 witness: the engine thread read the channel again with nothing
\* published since its last read, and read Run again.
C32_Witness ==
    /\ unread_at_read = 0
    /\ cmd_seen = "Run"
    /\ engine_pc = "drain"
    /\ Len(drained) >= 1

\* C33: with the engine thread alive, a window_event call for CloseRequested on
\* the primary window publishes Quit, asks the event loop to exit and queues
\* nothing; a call for any other event, CloseRequested on another window
\* included, queues that event and publishes nothing.  The queue never holds
\* a close request of the primary window, and every publish comes with the
\* request to exit.
C33_CloseRequestPublishesQuit ==
    /\ [][ \A window_id \in {"primary", "other"},
              event \in {"CloseRequested", "Resized"} :
              (window_event(window_id, event) /\ engine_thread_alive) =>
                  IF event = "CloseRequested" /\ window_id = "primary"
                  THEN /\ published' = Append(published, "Quit")
                       /\ engine_command'.pending = << "Quit" >>
                       /\ exit_requested'
                       /\ window_event_queue' = window_event_queue
                       /\ sent' = sent
                  ELSE /\ Len(window_event_queue') = Len(window_event_queue) + 1
                       /\ Last(window_event_queue').event = event
                       /\ Last(window_event_queue').window_id = window_id
                       /\ sent' = Append(sent, Last(window_event_queue'))
                       /\ published' = published
                       /\ engine_command' = engine_command
                       /\ exit_requested' = exit_requested ]_vars
    /\ [][ published' # published =>
              (exit_requested' /\ window_event_queue' = window_event_queue) ]_vars
    /\ [](\A i \in 1..Len(sent) :
             ~(sent[i].event = "CloseRequested" /\ sent[i].window_id = "primary"))

\* C33 witness: a close request for another window was queued and read by the
\* engine thread, then the close request for the primary window published Quit.
C33_Witness ==
    /\ Len(drained) = 1
    /\ drained[1].event = "CloseRequested"
    /\ drained[1].window_id = "other"
    /\ published = << "Run", "Quit" >>
    /\ exit_requested
    /\ window_event_queue = << >>

\* C34: once control_flow has set ControlFlow::Exit it stays Exit, and no
\* later step of the engine processes input, runs a tick or publishes to the
\* render thread: what the render thread can read from the channels stays as
\* it is, a call of control_flow made after stop_render_thread has returned
\* changes nothing of the engine, and stop_render_thread runs at most once.
C34_ExitIsFinal ==
    /\ [](stop_calls <= 1)
    /\ [](control_flow = "Exit" <=> stop_calls = 1)
    /\ [][ control_flow = "Exit" =>
              /\ control_flow' = "Exit"
              /\ stop_calls' = stop_calls
              /\ main_thread_frame_number' = main_thread_frame_number
              /\ publish_failed' = publish_failed
              /\ RenderCommandVisible' = RenderCommandVisible
              /\ latest(camera_channel').latest = latest(camera_channel).latest
              /\ latest(gui_primitives').latest = latest(gui_primitives).latest
              /\ latest(resize_flag').latest = latest(resize_flag).latest
              /\ latest(scale_factor').latest = latest(scale_factor).latest
              /\ Len(gui_textures') <= Len(gui_textures) ]_vars
    /\ [][ (control_flow = "Exit" /\ eng_pc = "idle") =>
              (eng_pc' = "idle" /\ elapsed' = elapsed /\ stop_log' = stop_log) ]_vars

\* C34 witness: a publish failed because the render thread had ended with an
\* error, stop_render_thread ran and returned, and control_flow was called
\* again.
C34_Witness ==
    /\ control_flow = "Exit"
    /\ publish_failed
    /\ rt_result = "err"
    /\ stop_calls = 1
    /\ stop_log = "render thread quit."
    /\ eng_pc = "idle"
    /\ ignored_events

\* C35: a tick publishes RenderFrame only when its camera, its texture deltas
\* and its GUI primitives have been published; a tick in which a publish
\* fails publishes no RenderFrame, leaves main_thread_frame_number as it is
\* and ends in the shutdown; main_thread_frame_number is the number of
\* RenderFrame commands process_frame has published.
C35_RenderFramePublishedLast ==
    /\ [](main_thread_frame_number = render_frame_publishes)
    /\ [][ \A textures_empty \in BOOLEAN, primitives_empty \in BOOLEAN,
              alive_for \in 0..Len(PublishOrder) :
              (/\ control_flow # "Exit"
               /\ Engine_control_flow("MainEventsCleared", textures_empty,
                                      primitives_empty, alive_for)) =>
                 LET tick == main_thread_frame_number + 1
                 IN  IF render_frame_publishes' = render_frame_publishes + 1
                     THEN /\ render_command'.pending = << "RenderFrame" >>
                          /\ camera_channel'.pending = << tick >>
                          /\ ~textures_empty => Last(gui_textures') = tick
                          /\ ~primitives_empty => gui_primitives'.pending = << tick >>
                          /\ main_thread_frame_number' = tick
                          /\ publish_failed' = publish_failed
                     ELSE /\ publish_failed'
                          /\ render_command' = render_command
                          /\ render_frame_publishes' = render_frame_publishes
                          /\ main_thread_frame_number' = main_thread_frame_number
                          /\ control_flow' = "Exit" ]_vars

\* C35 witness: after one full tick the render thread ended while the second
\* tick was running: the camera of tick 2 was published, its GUI primitives
\* and its RenderFrame were not, and the frame number is still 1.
C35_Witness ==
    /\ main_thread_frame_number = 1
    /\ render_frame_publishes = 1
    /\ latest(camera_channel).latest = 2
    /\ latest(gui_primitives).latest = 1
    /\ publish_failed
    /\ control_flow = "Exit"

\* C36: the recreate trigger is not lost.  A render_frame call that starts
\* with the trigger set or with window_resize true goes through
\* recreate_swapchain, acquires and submits nothing, and leaves the trigger
\* set exactly when the recreation failed; the trigger goes from set to unset
\* only in a step that replaced the swapchain and returned Ok; and a call whose
\* acquire was suboptimal or whose flush was out of date leaves it set.
C36_TriggerNeverLost ==
    \* a step that does not take a frame off the queue is a render_frame call,
    \* and last_resize' is its window_resize argument
    /\ [][ (/\ Len(in_flight') >= Len(in_flight)
            /\ recreate_swapchain \/ last_resize') =>
              /\ last_frame'.path = "recreate"
              /\ last_acquire' = "none"
              /\ in_flight' = in_flight
              /\ future_previous_frame' = future_previous_frame
              /\ recreate_swapchain' = (last_frame'.ret = "Err") ]_vars
    /\ [][ (recreate_swapchain /\ ~recreate_swapchain') =>
              /\ last_frame'.path = "recreate"
              /\ last_frame'.recreate = "Ok"
              /\ last_frame'.ret = "Ok"
              /\ swapchain_gen' = swapchain_gen + 1 ]_vars
    /\ []((last_frame.path = "recreate" /\ last_frame.ret = "Err") => recreate_swapchain)
    /\ []((/\ last_frame.path \in {"submitted", "flush_failed", "record"}
           /\ (last_acquire = "Suboptimal" \/ last_frame.flush = "OutOfDate"))
          => recreate_swapchain)

\* C36 witness: a resize was asked for, the swapchain was replaced, the render
\* image could not be made, and the trigger is still set.
C36_Witness ==
    /\ last_resize
    /\ last_frame.path = "recreate"
    /\ last_frame.recreate = "ErrRenderImage"
    /\ last_frame.ret = "Err"
    /\ recreate_swapchain
    /\ swapchain_gen = 1

\* C37: future_previous_frame holds a future whenever render_frame can be
\* entered and whenever it has returned, Ok or Err; it is empty only after a
\* panic inside render_frame, which no call follows.
C37_FutureAlwaysPresent ==
    /\ [](render_pc \in {"running", "failed"} => future_previous_frame # "None")
    /\ [](last_frame.ret \in {"Ok", "Err"} => future_previous_frame # "None")
    /\ [][ future_previous_frame = "None" => last_frame' = last_frame ]_vars

\* C37 witness: a flush failed while an earlier frame was in flight; the call
\* returned Ok with a fresh future in place of the one it had taken.
C37_Witness ==
    /\ last_frame.path = "flush_failed"
    /\ last_frame.flush = "Err"
    /\ last_frame.ret = "Ok"
    /\ future_previous_frame = "now"
    /\ Len(in_flight) = 1
    /\ render_pc = "running"

(***************************************************************************)
(* Claims about CursorState (SpecCursor).                                  *)
(***************************************************************************)
\* C38: a drag starts only in a process_frame in which the button that starts
\* it is pressed in the current and in the previous frame and the position has
\* changed on the x axis and on the y axis since the previous frame; a frame
\* in which the position changed on one axis only starts no drag.
C38_DragStartNeedsBothAxes ==
    /\ [][ (which_dragging = "None" /\ which_dragging' # "None") =>
              /\ is_pressed[which_dragging']
              /\ is_pressed_previous[which_dragging']
              /\ position.x # position_previous.x
              /\ position.y # position_previous.y
              /\ position_frame_change'.x # 0
              /\ position_frame_change'.y # 0 ]_vars
    /\ [][ (/\ CursorState_process_frame
            /\ which_dragging = "None"
            /\ position.x = position_previous.x \/ position.y = position_previous.y)
           => which_dragging' = "None" ]_vars
    /\ [][ (/\ CursorState_process_frame
            /\ which_dragging = "None"
            /\ position.x # position_previous.x
            /\ position.y # position_previous.y
            /\ \E b \in MouseButtons : is_pressed[b] /\ is_pressed_previous[b])
           => which_dragging' # "None" ]_vars

\* C38 witness: with the left button held, a frame in which the cursor moved
\* along x only was processed without a drag, and the cursor has since moved on
\* both axes.
C38_Witness ==
    /\ which_dragging = "None"
    /\ is_pressed["Left"]
    /\ is_pressed_previous["Left"]
    /\ position_frame_change = DVec2(1, 0)
    /\ position_previous = DVec2(1, 0)
    /\ position = DVec2(0, 1)

\* the priority the drag is to follow: Left, then Right, then Middle
priority(button) ==
    CASE button = "Left" -> 1 [] button = "Right" -> 2 [] button = "Middle" -> 3

\* C39: which_dragging changes only in process_frame.  A process_frame with
\* which_dragging = Some(b) keeps Some(b) if b is pressed and gives None if b
\* is not pressed, whatever the other buttons and the motion are, so it never
\* goes from one button to another; and the button that starts a drag is the
\* first in the order Left, Right, Middle that is held in both frames.
C39_DragPairing ==
    /\ [][ which_dragging' # which_dragging => CursorState_process_frame ]_vars
    /\ [][ (CursorState_process_frame /\ which_dragging # "None") =>
              which_dragging' = (IF is_pressed[which_dragging]
                                 THEN which_dragging ELSE "None") ]_vars
    /\ [][ (which_dragging # "None" /\ which_dragging' # "None")
           => which_dragging' = which_dragging ]_vars
    /\ [][ (which_dragging = "None" /\ which_dragging' # "None") =>
              \A b \in MouseButtons :
                  (is_pressed[b] /\ is_pressed_previous[b])
                  => priority(which_dragging') <= priority(b) ]_vars

\* C39 witness: the right button drags while the middle button, held as long,
\* does not, and the left button has been pressed since without taking the
\* drag over.
C39_Witness ==
    /\ which_dragging = "Right"
    /\ is_pressed["Right"]
    /\ is_pressed["Middle"]
    /\ is_pressed_previous["Middle"]
    /\ is_pressed["Left"]
    /\ is_pressed_previous["Left"]
    /\ position_frame_change = DVec2(1, 1)

\* what set_click_state does to the button states, for every supported button
ClickStateRecorded ==
    /\ [][ \A b \in MouseButtons, state \in {"Pressed", "Released"},
              cursor_captured \in BOOLEAN :
              CursorState_set_click_state(b, state, cursor_captured) =>
                  /\ is_pressed'[b] = (state = "Pressed" /\ ~cursor_captured)
                  /\ \A c \in MouseButtons \ {b} : is_pressed'[c] = is_pressed[c]
                  /\ which_dragging' = which_dragging ]_vars
    /\ [][ \A b \in MouseButtons :
              (is_pressed'[b] /\ ~is_pressed[b]) =>
                  CursorState_set_click_state(b, "Pressed", FALSE) ]_vars
    /\ [][ (which_dragging = "None" /\ which_dragging' # "None")
           => is_pressed[which_dragging'] ]_vars

\* C40 as stated: a button is recorded as pressed only by a Pressed event the
\* GUI did not capture, a captured press or a release records it as not
\* pressed, a drag starts only for a button recorded as pressed, and a release
\* of the dragging button ends the drag at the next process_frame.
C40_ReleaseEndsDrag ==
    /\ ClickStateRecorded
    /\ [][ (/\ CursorState_process_frame
            /\ which_dragging # "None"
            /\ drag_button_released) => which_dragging' = "None" ]_vars

\* C40 as amended: as above, but a release of the dragging button ends the
\* drag at the next process_frame only if no press the GUI did not capture has
\* followed it before that process_frame: the drag goes on exactly when the
\* button is recorded as pressed again.
C40_ReleaseEndsDragUnlessPressedAgain ==
    /\ ClickStateRecorded
    /\ [][ (/\ CursorState_process_frame
            /\ which_dragging # "None"
            /\ drag_button_released) =>
              which_dragging' = (IF is_pressed[which_dragging]
                                 THEN which_dragging ELSE "None") ]_vars
    /\ [][ \A b \in MouseButtons, cursor_captured \in BOOLEAN :
              (/\ which_dragging = b
               /\ CursorState_set_click_state(b, "Released", cursor_captured))
              => (~is_pressed'[b] /\ drag_button_released') ]_vars

\* C40 witness: the left button drags, it was released (the GUI captured the
\* release), and the frame that ends the drag has not been processed yet.
C40_Witness ==
    /\ which_dragging = "Left"
    /\ drag_button_released
    /\ ~is_pressed["Left"]
    /\ is_pressed_previous["Left"]
    /\ cursor_icon = "Grabbing"

====
